---- MODULE Spec2Model ----
(***************************************************************************)
(* A model of the game store server (src/server/game_store_server.py):     *)
(* the catalog (games_metadata.json), the in-memory room registry, the     *)
(* presence table (online_players), the per-connection session threads and *)
(* the game-server subprocesses with their monitor threads.                *)
(*                                                                         *)
(* Atomicity.  A handler step is one action per critical section: code     *)
(* that runs under one `with <lock>:` block is one atomic step, and a      *)
(* handler that releases one lock and takes another (handle_create_room,   *)
(* handle_update_game, handle_remove_game, the session teardown) is        *)
(* several steps, with the locals it carries across kept in the thread's   *)
(* program counter record.  handle_start_game and handle_get_room_status   *)
(* take games_lock while holding rooms_lock only to read the catalog;      *)
(* the read commutes with the room-only prefix, so each is one step.       *)
(***************************************************************************)
EXTENDS Integers, Sequences, FiniteSets, TLC

\* ------------------------------------------------------------------ bounds
\* Largest room number generate_room_id may hand out in the model.
MaxRoomId == 2
\* Largest number of game-server subprocesses spawned in the model.
MaxProcs == 1
\* Largest number of subprocesses spawned where a room is restarted.
MaxRestarts == 2
\* Request frames read on one connection.
MaxFrames == 2
\* Longest payload handed to send_frame.
MaxPayload == 2
\* Largest download_count a catalog entry reaches in the model.
MaxDownloads == 2

\* ------------------------------------------------------------- value sets
Players == {"p1", "p2", "p3"}
LobbyConns == {"c1", "c2", "c3"}
\* Developer connections whose frames the model follows.
DevConns == {"k1"}
\* games_lock, rooms_lock, online_players_lock and reviews_lock.
Locks == {"games_lock", "rooms_lock", "online_players_lock", "reviews_lock"}
\* Threads of the lock table.
LockThreads == {"t1", "t2"}
Developers == {"dev1", "dev2"}
Games == {"tic"}
Versions == {"1.0.0", "1.0.1"}
\* Version strings a developer's request may carry besides those: "" and
\* strings that are not three dot-separated numbers.
OtherVersions == {"", "1.0", "1.a.0", "1.0.0.0"}
\* max_players values a request may carry (the server stores what it is given).
MaxPlayersInputs == {0, 1, 2, 3}
\* random.randint(20000, 30000)
PortChoices == {20000}
\* Ratings a request may carry, in tenths of a point: 0, 1, 2.5, 6.
RatingInputs == {0, 10, 25, 60}
Comments == {"good", "bad"}
\* start_command values of an upload, as word lists.
GoodStartCommand == <<"python3", "client.py", "{host}", "{port}">>
StartCommands ==
    {<<>>, <<" ">>, <<"python3", "client.py">>,
     <<"python3", "client.py", "{host}">>,
     <<"python3", "client.py", "{port}">>,
     <<" ", "python3", "client.py", "{port}", "{host}", " ">>,
     GoodStartCommand}

\* Python None for a string-valued slot (data.get(...) of a missing key).
None == "None"
\* Python None for an integer-valued slot (pid, port, process handle).
NoneInt == 0
\* A room dict that has no such key at all ("game_server_pid" in room is False).
KeyAbsent == -1

\* Python truthiness of a string-valued / integer-valued slot.
Truthy(v) == v # None
TruthyInt(v) == v # NoneInt /\ v # KeyAbsent

VARIABLES
    games_metadata,   \* dict: game_name -> catalog entry
    rooms,            \* dict: room number n (id "ROOM_%04d" % n) -> room
    room_id_counter,  \* next room number
    online_players,   \* dict: username -> connection
    player_name,      \* per lobby connection thread: the session's player
    lobby_pc,         \* per lobby connection thread: position and locals
    developer_pc,     \* per developer session thread: position and locals
    procs,            \* dict: pid -> subprocess and its monitor thread
    reviews,          \* reviews.json: game_name -> list of reviews
    players_json,     \* players.json: player -> list of downloaded games
    review_locals,    \* per lobby connection thread: handle_submit_review's
                      \* locals between its critical sections
    frames,           \* per connection: the frames read and written on it
    dev_session,      \* per developer connection thread: position and
                      \* developer_name
    lock_owner,       \* per lock: the thread that holds it, None when free
    lock_pc,          \* per thread: the handler it runs and how far it got
    game_dirs,        \* the bundle directories: <<game_name, version>> ->
                      \* the files extracted there
    bundles,          \* per game: the bundle of the last accepted upload
                      \* or update and the bundle of the last download
    wire              \* one stream socket with a recv_frame call reading
                      \* from it
                      \* since

\* The review store and what belongs to it.
review_vars == <<reviews, players_json, review_locals>>

\* The frame accounting of the connections, the lock table and the bundle
\* directories.
layer_vars ==
    <<frames, dev_session, lock_owner, lock_pc, game_dirs, bundles, wire>>

vars == <<games_metadata, rooms, room_id_counter, online_players,
          player_name, lobby_pc, developer_pc, procs, review_vars,
          layer_vars>>

\* ----------------------------------------------------------- dict helpers
\* d[k] = v of a Python dict.
DictSet(d, k, v) == [x \in (DOMAIN d) \cup {k} |-> IF x = k THEN v ELSE d[x]]
\* del d[k]
DictDel(d, k) == [x \in (DOMAIN d) \ {k} |-> d[x]]
EmptyDict == [x \in {} |-> 0]

\* item in list
InSeq(x, s) == \E i \in 1..Len(s) : s[i] = x
\* list.remove(x): drops the first occurrence of x.
RECURSIVE SeqRemove(_, _)
SeqRemove(s, x) ==
    IF s = <<>> THEN <<>>
    ELSE IF Head(s) = x THEN Tail(s)
    ELSE <<Head(s)>> \o SeqRemove(Tail(s), x)

\* ---------------------------------------------------------- thread records
\* The locals a lobby thread carries from one critical section to the next:
\* game_name, server_version and game_info["max_players"] of
\* handle_create_room, player_room of the teardown.
LobbyAt(at) ==
    [at |-> at, game_name |-> None, server_version |-> None,
     max_players |-> 0, player_room |-> NoneInt]
DevAt(at, g) == [at |-> at, game_name |-> g]
\* A developer connection thread: where it stands and its developer_name.
DevSessionAt(at, developer_name) ==
    [at |-> at, developer_name |-> developer_name]
\* What has been read from and written to a connection: the handshake
\* frame, the handshake reply, the number of request frames
\* read, the request frame being handled, the number of frames written and
\* the message of the last response written in the request loop.
NoFrame ==
    [kind |-> "none", client_type |-> None, action |-> None,
     data_ok |-> TRUE, username |-> None]
NoFrames ==
    [handshake |-> NoFrame, handshake_reply |-> None, read |-> 0,
     request |-> NoFrame, written |-> 0, response |-> None]
\* A stream socket and the recv_frame call that reads from it: the copy of
\* lpfp.py the reader runs, the payload send_frame was given (framed tells
\* whether the bytes come from send_frame at all), whether sendall wrote
\* the whole frame, the bytes written and not yet received, whether the
\* stream has ended, where recv_frame stands ("idle" before the call,
\* "header", "data", "done" after its return), its locals header, length
\* and data, and what it returned ("None" or "data", the value of data).
NoWire ==
    [lpfp |-> "tetris", payload |-> <<>>, framed |-> FALSE,
     complete |-> FALSE, pending |-> <<>>, closed |-> FALSE, at |-> "idle",
     header |-> <<>>, length |-> 0, data |-> <<>>, returned |-> "nothing"]
\* A zip archive on the wire: its entries in order, each with the name, the
\* content and the modification time recorded for it, and the compression
\* method of the archive.  NoArchive is no archive at all.
Archive(entries, method) == [entries |-> entries, method |-> method]
NoArchive == Archive(<<>>, None)
\* A thread of the lock table: the handler it runs and the number of lock
\* events of the handler it has passed.
LockAt(handler, passed) == [handler |-> handler, passed |-> passed]
\* The locals of handle_submit_review when no call is running.
NoReviewLocals ==
    [game_name |-> None, rating |-> KeyAbsent, comment |-> None,
     reviews |-> <<>>]

Init ==
    /\ games_metadata = EmptyDict
    /\ rooms = EmptyDict
    /\ room_id_counter = 1
    /\ online_players = EmptyDict
    /\ player_name = [c \in LobbyConns |-> None]
    /\ lobby_pc = [c \in LobbyConns |-> LobbyAt("closed")]
    /\ developer_pc = [d \in Developers |-> DevAt("idle", None)]
    /\ procs = EmptyDict
    /\ reviews = EmptyDict
    /\ players_json = EmptyDict
    /\ review_locals = [c \in LobbyConns |-> NoReviewLocals]
    /\ frames = [c \in {"c1"} \cup DevConns |-> NoFrames]
    /\ dev_session = [k \in DevConns |-> DevSessionAt("closed", None)]
    /\ lock_owner = [l \in Locks |-> None]
    /\ lock_pc = [t \in LockThreads |-> LockAt("idle", 0)]
    /\ game_dirs = EmptyDict
    /\ bundles = [g \in Games |-> [sent |-> NoArchive, received |-> NoArchive]]
    /\ wire = NoWire

\* ------------------------------------------------------------ the catalog
\* A start_command is kept as the list of its words; " " stands for a run of
\* whitespace, <<>> for "" (also what config.get gives without the key).
\* str.strip(): whitespace at both ends is dropped.
RECURSIVE lstrip(_)
lstrip(s) == IF s # <<>> /\ Head(s) = " " THEN lstrip(Tail(s)) ELSE s

RECURSIVE rstrip(_)
rstrip(s) ==
    IF s # <<>> /\ s[Len(s)] = " " THEN rstrip(SubSeq(s, 1, Len(s) - 1))
    ELSE s

strip(s) == rstrip(lstrip(s))

\* handle_upload_game, the validation of config before games_lock: the
\* error, or "continue".  Requests carry game_name, game_type and game_files.
handle_upload_game_check(data) ==
    IF strip(data.start_command) = <<>>
    THEN "start_command is required in config"
    ELSE IF ~InSeq("{host}", strip(data.start_command))
            \/ ~InSeq("{port}", strip(data.start_command))
    THEN "start_command must include {host} and {port} placeholders"
    ELSE "continue"

\* Mutant of handle_upload_game_response: an existing name is not refused.
handle_upload_game_response_overwrite(data, developer_name) ==
    IF handle_upload_game_check(data) # "continue"
    THEN handle_upload_game_check(data)
    ELSE "Game uploaded successfully"

\* handle_upload_game: the response message.  data = [game_name, version,
\* max_players, server_command, start_command]; server_command tells whether
\* config carries a non-empty "server_command", which is all the catalog
\* entry keeps of config here.  average_rating is kept in hundredths of a
\* point (round(avg, 2)).
handle_upload_game_response(data, developer_name) ==
    IF handle_upload_game_check(data) # "continue"
    THEN handle_upload_game_check(data)
    ELSE IF data.game_name \in DOMAIN games_metadata
    THEN "Game already exists. Use update instead."
    ELSE "Game uploaded successfully"

\* handle_upload_game: data.get("version", "1.0.0"); version is None when
\* the request has none.
upload_version(data) ==
    IF data.version = None THEN "1.0.0" ELSE data.version

\* handle_upload_game: games_metadata after the call.
handle_upload_game_games(data, developer_name) ==
    IF handle_upload_game_response(data, developer_name)
         # "Game uploaded successfully"
    THEN games_metadata
    ELSE DictSet(games_metadata, data.game_name,
                 [developer |-> developer_name,
                  max_players |-> data.max_players,
                  version |-> upload_version(data),
                  status |-> "active",
                  server_command |-> data.server_command,
                  download_count |-> 0,
                  average_rating |-> 0,
                  review_count |-> 0])

\* Mutant of handle_update_game_check: the owner is not compared.
handle_update_game_check_any_developer(data, developer_name) ==
    IF data.version = None \/ data.version = ""
    THEN "Missing required fields"
    ELSE IF data.game_name \notin DOMAIN games_metadata THEN "Game not found"
    ELSE IF games_metadata[data.game_name].status # "active"
    THEN "Cannot update inactive game. Please re-upload the game instead."
    ELSE "continue"

\* handle_update_game, the test of the fields and the games_lock section: the
\* response when it returns early, "continue" when it goes on to the room
\* cascade.  Requests carry game_name and game_files; version is None when
\* the request has none.
handle_update_game_check(data, developer_name) ==
    IF data.version = None \/ data.version = ""
    THEN "Missing required fields"
    ELSE IF data.game_name \notin DOMAIN games_metadata THEN "Game not found"
    ELSE IF games_metadata[data.game_name].status # "active"
    THEN "Cannot update inactive game. Please re-upload the game instead."
    ELSE IF games_metadata[data.game_name].developer # developer_name
    THEN "Permission denied"
    ELSE "continue"

handle_update_game_games(data, developer_name) ==
    IF handle_update_game_check(data, developer_name) # "continue"
    THEN games_metadata
    ELSE [games_metadata EXCEPT ![data.game_name].version = data.version]

\* handle_remove_game, the games_lock section.
handle_remove_game_check(data, developer_name) ==
    IF data.game_name \notin DOMAIN games_metadata THEN "Game not found"
    ELSE IF games_metadata[data.game_name].developer # developer_name
    THEN "Permission denied"
    ELSE "continue"

handle_remove_game_games(data, developer_name) ==
    IF handle_remove_game_check(data, developer_name) # "continue"
    THEN games_metadata
    ELSE DictDel(games_metadata, data.game_name)

\* The rooms_lock section of handle_update_game / handle_remove_game: the
\* rooms that are deleted, and the rooms that are left.
rooms_to_delete(game_name) ==
    {n \in DOMAIN rooms : rooms[n].game_name = game_name}

\* A cascade that would drop the rooms of every game.
cascade_rooms_every_game(game_name) ==
    [n \in {} |-> rooms[n]]

cascade_rooms(game_name) ==
    [n \in (DOMAIN rooms) \ rooms_to_delete(game_name) |-> rooms[n]]

\* The removed_rooms list of the reply: one summary per deleted room.
removed_rooms(game_name) ==
    {[room_id |-> n, players |-> rooms[n].players,
      status |-> rooms[n].status] : n \in rooms_to_delete(game_name)}

\* The pids a handler signals when it stops the game server of a room:
\* os.killpg / os.kill of game_server_pid, which fails (and is swallowed)
\* when the key is absent or holds None.
kill_target(room) ==
    IF TruthyInt(room.game_server_pid) THEN {room.game_server_pid} ELSE {}

\* SIGTERM is sent to the pids: it is pending on those that still run.
procs_signalled(pids) ==
    [p \in DOMAIN procs |->
       IF p \in pids /\ procs[p].alive
       THEN [procs[p] EXCEPT !.sigterm = TRUE]
       ELSE procs[p]]

\* The cascade of update_game and remove_game stops the game server of
\* every room it deletes.
cascade_procs(game_name) ==
    procs_signalled(UNION {kill_target(rooms[n]) :
                             n \in rooms_to_delete(game_name)})

UploadData ==
    [game_name : Games, version : Versions, max_players : MaxPlayersInputs,
     server_command : BOOLEAN, start_command : StartCommands]
UpdateData == [game_name : Games, version : Versions]
RemoveData == [game_name : Games]

UploadGame(d, data) ==
    /\ developer_pc[d].at = "idle"
    /\ games_metadata' = handle_upload_game_games(data, d)
    /\ UNCHANGED layer_vars
    /\ UNCHANGED review_vars
    /\ UNCHANGED <<rooms, room_id_counter, online_players, player_name,
                   lobby_pc, developer_pc, procs>>

UpdateGame(d, data) ==
    /\ developer_pc[d].at = "idle"
    /\ games_metadata' = handle_update_game_games(data, d)
    /\ developer_pc' =
         IF handle_update_game_check(data, d) = "continue"
         THEN [developer_pc EXCEPT
                 ![d] = DevAt("update_cascade", data.game_name)]
         ELSE developer_pc
    /\ UNCHANGED layer_vars
    /\ UNCHANGED review_vars
    /\ UNCHANGED <<rooms, room_id_counter, online_players, player_name,
                   lobby_pc, procs>>

RemoveGame(d, data) ==
    /\ developer_pc[d].at = "idle"
    /\ games_metadata' = handle_remove_game_games(data, d)
    /\ developer_pc' =
         IF handle_remove_game_check(data, d) = "continue"
         THEN [developer_pc EXCEPT
                 ![d] = DevAt("remove_cascade", data.game_name)]
         ELSE developer_pc
    /\ UNCHANGED layer_vars
    /\ UNCHANGED review_vars
    /\ UNCHANGED <<rooms, room_id_counter, online_players, player_name,
                   lobby_pc, procs>>

\* The second critical section of update_game / remove_game, then the reply.
CascadeRooms(d) ==
    /\ developer_pc[d].at \in {"update_cascade", "remove_cascade"}
    /\ rooms' = cascade_rooms(developer_pc[d].game_name)
    /\ procs' = cascade_procs(developer_pc[d].game_name)
    /\ developer_pc' = [developer_pc EXCEPT ![d] = DevAt("idle", None)]
    /\ UNCHANGED layer_vars
    /\ UNCHANGED review_vars
    /\ UNCHANGED <<games_metadata, room_id_counter, online_players,
                   player_name, lobby_pc>>

\* --------------------------------------------------------------- the rooms
\* generate_room_id: the id is "ROOM_%04d" of the counter; the model keeps
\* the number.
\* Mutant of generate_room_id: the lowest id no room holds.
generate_room_id_lowest_free ==
    CHOOSE n \in 1..(room_id_counter) :
      /\ n \notin DOMAIN rooms
      /\ \A m \in 1..(n - 1) : m \in DOMAIN rooms
generate_room_id == room_id_counter

\* handle_create_room, the games_lock section: the response when it returns
\* early, "continue" when it goes on to create the room.
\* data = [game_name, version]; version is None when the request has none.
handle_create_room_check(data) ==
    IF ~Truthy(data.game_name) THEN "Missing game_name"
    ELSE IF data.game_name \notin DOMAIN games_metadata THEN "Game not found"
    ELSE IF games_metadata[data.game_name].status # "active"
    THEN "Game is not available"
    ELSE IF Truthy(data.version)
            /\ data.version # games_metadata[data.game_name].version
    THEN "Version mismatch"
    ELSE "continue"

\* The room dict handle_create_room stores.  "game_server_pid" and
\* "game_server_process" are not keys of a new room.
NewRoom(game_name, server_version, host, max_players) ==
    [game_name |-> game_name,
     version |-> server_version,
     host |-> host,
     players |-> <<host>>,
     max_players |-> max_players,
     status |-> "waiting",
     game_server_pid |-> KeyAbsent,
     game_server_port |-> NoneInt,
     game_server_process |-> KeyAbsent]

\* Mutant of handle_join_room_response: the capacity test is off by one
\* (> for >=).
handle_join_room_response_off_by_one(data, player) ==
    IF data.room_id \notin DOMAIN rooms THEN "Room not found"
    ELSE IF rooms[data.room_id].status # "waiting"
    THEN "Room is not accepting players"
    ELSE IF InSeq(player, rooms[data.room_id].players)
    THEN "Already in room"
    ELSE IF Len(rooms[data.room_id].players)
              > rooms[data.room_id].max_players
    THEN "Room is full"
    ELSE IF Truthy(data.version)
            /\ data.version # rooms[data.room_id].version
    THEN "Version mismatch"
    ELSE "Joined room"

\* handle_join_room.  data = [room_id, version].
handle_join_room_response(data, player) ==
    IF data.room_id \notin DOMAIN rooms THEN "Room not found"
    ELSE IF rooms[data.room_id].status # "waiting"
    THEN "Room is not accepting players"
    ELSE IF InSeq(player, rooms[data.room_id].players)
    THEN "Already in room"
    ELSE IF Len(rooms[data.room_id].players)
              >= rooms[data.room_id].max_players
    THEN "Room is full"
    ELSE IF Truthy(data.version)
            /\ data.version # rooms[data.room_id].version
    THEN "Version mismatch"
    ELSE "Joined room"

handle_join_room_rooms(data, player) ==
    IF handle_join_room_response(data, player) # "Joined room" THEN rooms
    ELSE [rooms EXCEPT ![data.room_id].players = Append(@, player)]

\* Mutant of handle_leave_room_response: the host leaves like any member.
handle_leave_room_response_no_disband(data, player) ==
    IF data.room_id \notin DOMAIN rooms THEN "Room not found"
    ELSE IF ~InSeq(player, rooms[data.room_id].players) THEN "Not in room"
    ELSE IF SeqRemove(rooms[data.room_id].players, player) = <<>>
    THEN "Left room (room deleted)"
    ELSE "Left room"

\* handle_leave_room.  data = [room_id].
handle_leave_room_response(data, player) ==
    IF data.room_id \notin DOMAIN rooms THEN "Room not found"
    ELSE IF ~InSeq(player, rooms[data.room_id].players) THEN "Not in room"
    ELSE IF player = rooms[data.room_id].host
    THEN "Room disbanded (host left)"
    ELSE IF SeqRemove(rooms[data.room_id].players, player) = <<>>
    THEN "Left room (room deleted)"
    ELSE "Left room"

handle_leave_room_rooms(data, player) ==
    LET response == handle_leave_room_response(data, player) IN
    IF response \in {"Room not found", "Not in room"} THEN rooms
    ELSE IF response \in {"Room disbanded (host left)",
                          "Left room (room deleted)"}
    THEN DictDel(rooms, data.room_id)
    ELSE [rooms EXCEPT ![data.room_id].players = SeqRemove(@, player)]

\* ------------------------------------------------- game-server subprocesses
\* process.poll() is not None / proc.wait() has returned.
Exited(proc) == proc \in DOMAIN procs /\ ~procs[proc].alive

\* handle_leave_room: the host's leave stops the game server of the room.
handle_leave_room_procs(data, player) ==
    IF handle_leave_room_response(data, player)
         = "Room disbanded (host left)"
    THEN procs_signalled(kill_target(rooms[data.room_id]))
    ELSE procs

\* handle_reset_room: the host's reset stops the recorded game server.
handle_reset_room_procs(data, player) ==
    IF data.room_id \in DOMAIN rooms /\ player = rooms[data.room_id].host
    THEN procs_signalled(kill_target(rooms[data.room_id]))
    ELSE procs

\* Mutant of handle_start_game_response: the member count is not tested.
handle_start_game_response_no_count(data, player, alive) ==
    IF data.room_id \notin DOMAIN rooms THEN "Room not found"
    ELSE IF player # rooms[data.room_id].host
    THEN "Only host can start game"
    ELSE IF rooms[data.room_id].status = "playing"
    THEN "Game already started"
    ELSE IF rooms[data.room_id].game_name \notin DOMAIN games_metadata
    THEN "Game not found"
    ELSE IF ~games_metadata[rooms[data.room_id].game_name].server_command
    THEN "Game started (no server needed)"
    ELSE IF ~alive THEN "Game Server failed to start"
    ELSE "Game server started! Connect now."

\* Mutant of handle_start_game_response: the caller is not compared with
\* the room's host.
handle_start_game_response_any_caller(data, player, alive) ==
    IF data.room_id \notin DOMAIN rooms THEN "Room not found"
    ELSE IF rooms[data.room_id].status = "playing"
    THEN "Game already started"
    ELSE IF Len(rooms[data.room_id].players) < 2
    THEN "Need at least 2 players"
    ELSE IF rooms[data.room_id].game_name \notin DOMAIN games_metadata
    THEN "Game not found"
    ELSE IF ~games_metadata[rooms[data.room_id].game_name].server_command
    THEN "Game started (no server needed)"
    ELSE IF ~alive THEN "Game Server failed to start"
    ELSE "Game server started! Connect now."

\* Mutant of handle_start_game_response: the subprocess is not polled after
\* the grace window.
handle_start_game_response_no_poll(data, player, alive) ==
    IF data.room_id \notin DOMAIN rooms THEN "Room not found"
    ELSE IF player # rooms[data.room_id].host
    THEN "Only host can start game"
    ELSE IF rooms[data.room_id].status = "playing"
    THEN "Game already started"
    ELSE IF Len(rooms[data.room_id].players) < 2
    THEN "Need at least 2 players"
    ELSE IF rooms[data.room_id].game_name \notin DOMAIN games_metadata
    THEN "Game not found"
    ELSE IF ~games_metadata[rooms[data.room_id].game_name].server_command
    THEN "Game started (no server needed)"
    ELSE "Game server started! Connect now."

\* handle_start_game.  data = [room_id]; alive tells whether the spawned
\* subprocess is still running at the end of the 0.5 s grace window.
\* Upload and update create the bundle directory of a version under
\* games_lock before they write the metadata; "Game files not found" and
\* "Failed to start: ..." leave every room as it is, like the other errors,
\* and are not told apart from them.
handle_start_game_response(data, player, alive) ==
    IF data.room_id \notin DOMAIN rooms THEN "Room not found"
    ELSE IF player # rooms[data.room_id].host
    THEN "Only host can start game"
    ELSE IF rooms[data.room_id].status = "playing"
    THEN "Game already started"
    ELSE IF Len(rooms[data.room_id].players) < 2
    THEN "Need at least 2 players"
    ELSE IF rooms[data.room_id].game_name \notin DOMAIN games_metadata
    THEN "Game not found"
    ELSE IF ~games_metadata[rooms[data.room_id].game_name].server_command
    THEN "Game started (no server needed)"
    ELSE IF ~alive THEN "Game Server failed to start"
    ELSE "Game server started! Connect now."

\* Mutant of handle_start_game_rooms: the spawned server is not recorded.
handle_start_game_rooms_no_record(data, player, alive, pid, port) ==
    IF handle_start_game_response(data, player, alive)
         \in {"Game started (no server needed)",
              "Game server started! Connect now."}
    THEN [rooms EXCEPT ![data.room_id].status = "playing"]
    ELSE rooms

handle_start_game_rooms(data, player, alive, pid, port) ==
    LET response == handle_start_game_response(data, player, alive) IN
    IF response = "Game started (no server needed)"
    THEN [rooms EXCEPT ![data.room_id].status = "playing"]
    ELSE IF response = "Game server started! Connect now."
    THEN [rooms EXCEPT ![data.room_id].game_server_pid = pid,
                       ![data.room_id].game_server_port = port,
                       ![data.room_id].game_server_process = pid,
                       ![data.room_id].status = "playing"]
    ELSE rooms

\* Whether handle_start_game reaches subprocess.Popen.
start_game_spawns(data, player) ==
    handle_start_game_response(data, player, TRUE)
      = "Game server started! Connect now."

\* handle_player_ready.  data = [room_id].  The model's room record does not
\* keep ready_players; all_ready tells whether this call finds the player not
\* yet ready and makes the ready list as long as the member list.
handle_player_ready_response(data, player, all_ready, alive) ==
    IF data.room_id \notin DOMAIN rooms THEN "Room not found"
    ELSE IF ~InSeq(player, rooms[data.room_id].players) THEN "Not in room"
    ELSE IF rooms[data.room_id].status # "ready_check"
    THEN "Not in ready check phase"
    ELSE IF ~all_ready THEN "You are ready"
    ELSE IF rooms[data.room_id].game_name \notin DOMAIN games_metadata
    THEN "Game not found"
    ELSE IF ~games_metadata[rooms[data.room_id].game_name].server_command
    THEN "Game started (no server needed)"
    ELSE IF ~alive THEN "Game Server failed to start"
    ELSE "Game server started! Connect now."

\* handle_player_ready with _actually_start_game: rooms after the call.
handle_player_ready_rooms(data, player, all_ready, alive, pid, port) ==
    LET response == handle_player_ready_response(data, player, all_ready,
                                                 alive) IN
    IF response = "Game started (no server needed)"
    THEN [rooms EXCEPT ![data.room_id].status = "playing"]
    ELSE IF response = "Game Server failed to start"
    THEN [rooms EXCEPT ![data.room_id].status = "waiting"]
    ELSE IF response = "Game server started! Connect now."
    THEN [rooms EXCEPT ![data.room_id].game_server_pid = pid,
                       ![data.room_id].game_server_port = port,
                       ![data.room_id].game_server_process = pid,
                       ![data.room_id].status = "playing"]
    ELSE rooms

\* Whether handle_player_ready reaches subprocess.Popen.
player_ready_spawns(data, player, all_ready) ==
    handle_player_ready_response(data, player, all_ready, TRUE)
      = "Game server started! Connect now."

\* handle_cancel_ready_check.  data = [room_id].
handle_cancel_ready_check_response(data, player) ==
    IF data.room_id \notin DOMAIN rooms THEN "Room not found"
    ELSE IF player # rooms[data.room_id].host THEN "Only host can cancel"
    ELSE IF rooms[data.room_id].status # "ready_check"
    THEN "Not in ready check phase"
    ELSE "Ready check cancelled"

handle_cancel_ready_check_rooms(data, player) ==
    IF handle_cancel_ready_check_response(data, player)
         # "Ready check cancelled"
    THEN rooms
    ELSE [rooms EXCEPT ![data.room_id].status = "waiting"]

\* Mutant of should_reset: the process handle is not polled.
should_reset_no_poll(room) ==
    ~TruthyInt(room.game_server_process) /\ ~TruthyInt(room.game_server_pid)

\* handle_get_room_status: should_reset of the reconcile block.
should_reset(room) ==
    IF TruthyInt(room.game_server_process)
    THEN Exited(room.game_server_process)
    ELSE IF TruthyInt(room.game_server_pid)
    THEN Exited(room.game_server_pid)
    ELSE TRUE

\* handle_get_room_status: rooms after the call.  data = [room_id].
handle_get_room_status_rooms(data, player) ==
    IF /\ data.room_id \in DOMAIN rooms
       /\ InSeq(player, rooms[data.room_id].players)
       /\ rooms[data.room_id].status = "playing"
       /\ should_reset(rooms[data.room_id])
    THEN [rooms EXCEPT ![data.room_id].status = "waiting",
                       ![data.room_id].game_server_pid = NoneInt,
                       ![data.room_id].game_server_port = NoneInt,
                       ![data.room_id].game_server_process = NoneInt]
    ELSE rooms

\* handle_get_room_status: the error message, or on success the reported
\* [status, server_port] of room_data.
handle_get_room_status_response(data, player) ==
    IF data.room_id \notin DOMAIN rooms
    THEN [status |-> "error", message |-> "Room not found or has been closed"]
    ELSE IF ~InSeq(player, rooms[data.room_id].players)
    THEN [status |-> "error", message |-> "You are not in this room"]
    ELSE LET r == handle_get_room_status_rooms(data, player)[data.room_id] IN
         [status |-> "success", room_status |-> r.status,
          server_port |-> IF r.status = "playing"
                          THEN r.game_server_port ELSE NoneInt]

\* handle_reset_room.  data = [room_id].
handle_reset_room_response(data, player) ==
    IF data.room_id \notin DOMAIN rooms THEN "Room not found"
    ELSE IF player # rooms[data.room_id].host
    THEN "Only host can reset room"
    ELSE "Room reset to waiting"

handle_reset_room_rooms(data, player) ==
    IF handle_reset_room_response(data, player) # "Room reset to waiting"
    THEN rooms
    ELSE [rooms EXCEPT ![data.room_id].status = "waiting",
                       ![data.room_id].game_server_pid = NoneInt,
                       ![data.room_id].game_server_port = NoneInt]

\* Mutant of monitor_game_server_rooms: only the status is reset.
monitor_game_server_rooms_status_only(rid) ==
    IF rid \in DOMAIN rooms
    THEN [rooms EXCEPT ![rid].status = "waiting"]
    ELSE rooms

\* monitor_game_server, after proc.wait() has returned: the rooms_lock block.
monitor_game_server_rooms(rid) ==
    IF rid \in DOMAIN rooms
    THEN [rooms EXCEPT ![rid].status = "waiting",
                       ![rid].game_server_pid = NoneInt,
                       ![rid].game_server_port = NoneInt,
                       ![rid].game_server_process = NoneInt]
    ELSE rooms

\* ------------------------------------------------------ the presence table
\* Mutant of login_response: no test for an existing presence entry.
login_response_no_check(username, db_ok) ==
    IF ~db_ok THEN "Invalid username or password" ELSE "Login successful"

\* The login branch of handle_lobby_client, the online_players_lock block.
\* db_ok is the credential store's verdict on the username and password.
login_response(username, db_ok) ==
    IF ~db_ok THEN "Invalid username or password"
    ELSE IF username \in DOMAIN online_players THEN "Already online"
    ELSE "Login successful"

login_online_players(username, conn, db_ok) ==
    IF login_response(username, db_ok) = "Login successful"
    THEN DictSet(online_players, username, conn)
    ELSE online_players

\* The session teardown's scan: the first room, in dict order, that holds
\* the player; None when there is none.  Rooms are inserted with
\* increasing numbers, so dict order is numeric order.
player_room_of(player) ==
    LET holding == {n \in DOMAIN rooms : InSeq(player, rooms[n].players)} IN
    IF holding = {} THEN NoneInt
    ELSE CHOOSE n \in holding : \A m \in holding : n <= m

\* The session teardown's last block.
cleanup_online_players(player) ==
    IF player \in DOMAIN online_players
    THEN DictDel(online_players, player)
    ELSE online_players

\* ------------------------------------------------- downloads and reviews
\* A rating is a JSON number; the model keeps it in tenths of a point (25 is
\* 2.5), KeyAbsent when the request carries none.  A review's timestamp is
\* not kept.
\* handle_download_game.  data = [game_name].
handle_download_game_response(data, player) ==
    IF ~Truthy(data.game_name) THEN "Missing game_name"
    ELSE IF data.game_name \notin DOMAIN games_metadata THEN "Game not found"
    ELSE IF games_metadata[data.game_name].status # "active"
    THEN "Game is not available"
    ELSE "success"

\* Mutant of handle_download_game_games: the download is not counted.
handle_download_game_games_not_counted(data, player) == games_metadata

handle_download_game_games(data, player) ==
    IF handle_download_game_response(data, player) # "success"
    THEN games_metadata
    ELSE [games_metadata EXCEPT ![data.game_name].download_count = @ + 1]

\* players[player_name]["downloaded_games"], [] for a player without record.
downloaded_games(player) ==
    IF player \in DOMAIN players_json THEN players_json[player] ELSE <<>>

handle_download_game_players(data, player) ==
    IF handle_download_game_response(data, player) # "success"
         \/ InSeq(data.game_name, downloaded_games(player))
    THEN players_json
    ELSE DictSet(players_json, player,
                 Append(downloaded_games(player), data.game_name))

\* handle_submit_review, the validation and the first games_lock block.
\* data = [game_name, rating, comment].
handle_submit_review_check(data) ==
    IF ~Truthy(data.game_name) \/ data.rating = KeyAbsent
    THEN "Missing required fields"
    ELSE IF ~(10 <= data.rating /\ data.rating <= 50)
    THEN "Rating must be between 1 and 5"
    ELSE IF data.game_name \notin DOMAIN games_metadata THEN "Game not found"
    ELSE IF games_metadata[data.game_name].status # "active"
    THEN "Cannot review inactive game"
    ELSE "continue"

\* Mutant of handle_submit_review_downloaded: the download history is not
\* consulted.
handle_submit_review_downloaded_skipped(game_name, player) == "continue"

\* handle_submit_review, the online_players_lock block.
handle_submit_review_downloaded(game_name, player) ==
    IF player \notin DOMAIN players_json THEN "Player not found"
    ELSE IF ~InSeq(game_name, players_json[player])
    THEN "You must download the game before reviewing"
    ELSE "continue"

\* reviews[game_name], [] when the file has no such key.
stored_reviews(game_name) ==
    IF game_name \in DOMAIN reviews THEN reviews[game_name] ELSE <<>>

\* Mutant of existing_review_index: an earlier review is never found.
existing_review_index_never(list, player) == NoneInt

\* existing_review_index: the first review by the player, None when there is
\* none (lists are numbered from 1 here).
existing_review_index(list, player) ==
    IF \E i \in 1..Len(list) : list[i].player = player
    THEN CHOOSE i \in 1..Len(list) :
           /\ list[i].player = player
           /\ \A j \in 1..(i - 1) : list[j].player # player
    ELSE NoneInt

\* handle_submit_review, the reviews_lock block: reviews[game_name] after it.
handle_submit_review_list(game_name, player, rating, comment) ==
    LET list == stored_reviews(game_name)
        new_review ==
          [player |-> player, rating |-> rating, comment |-> comment]
    IN  IF existing_review_index(list, player) # NoneInt
        THEN [list EXCEPT ![existing_review_index(list, player)] = new_review]
        ELSE Append(list, new_review)

handle_submit_review_reviews(game_name, player, rating, comment) ==
    DictSet(reviews, game_name,
            handle_submit_review_list(game_name, player, rating, comment))

\* sum(all_ratings)
RECURSIVE sum_ratings(_)
sum_ratings(list) ==
    IF list = <<>> THEN 0 ELSE Head(list).rating + sum_ratings(Tail(list))

\* round(sum(all_ratings) / len(all_ratings), 2) in hundredths of a point,
\* 0 for an empty list; sum is in tenths.  Ties go to the even neighbour.
average_rating(list) ==
    IF list = <<>> THEN 0
    ELSE LET num == sum_ratings(list) * 10
             q == num \div Len(list)
             r == num % Len(list)
         IN  IF 2 * r < Len(list) THEN q
             ELSE IF 2 * r > Len(list) THEN q + 1
             ELSE IF q % 2 = 0 THEN q ELSE q + 1

\* handle_submit_review, the last games_lock block; all_reviews is the
\* call's local reviews[game_name], as the reviews_lock block left it.
handle_submit_review_games(game_name, all_reviews) ==
    IF game_name \notin DOMAIN games_metadata THEN games_metadata
    ELSE [games_metadata EXCEPT
            ![game_name].average_rating = average_rating(all_reviews),
            ![game_name].review_count = Len(all_reviews)]

\* handle_get_reviews: round(avg_rating, 1) in tenths of a point, 0 for an
\* empty list.  Ties go to the even neighbour.
get_reviews_average(list) ==
    IF list = <<>> THEN 0
    ELSE LET q == sum_ratings(list) \div Len(list)
             r == sum_ratings(list) % Len(list)
         IN  IF 2 * r < Len(list) THEN q
             ELSE IF 2 * r > Len(list) THEN q + 1
             ELSE IF q % 2 = 0 THEN q ELSE q + 1

\* handle_get_reviews.  data = [game_name]; game_name is None when the
\* request has none.  The reviews file is read without a lock and the
\* catalog is not read at all.
handle_get_reviews_response(data) ==
    IF ~Truthy(data.game_name)
    THEN [status |-> "error", message |-> "Missing game_name"]
    ELSE [status |-> "success",
          reviews |-> stored_reviews(data.game_name),
          total_reviews |-> Len(stored_reviews(data.game_name)),
          average_rating |-> get_reviews_average(stored_reviews(data.game_name))]

\* ------------------------------------------------- lobby connection threads
RoomIds == 1..MaxRoomId
RequestVersions == Versions \cup {None}
CreateRoomData == [game_name : Games, version : RequestVersions]
JoinRoomData == [room_id : RoomIds, version : RequestVersions]
RoomData == [room_id : RoomIds]

\* The request loop is waiting for a frame and the session is logged in.
LoggedIn(c) == lobby_pc[c].at = "idle" /\ Truthy(player_name[c])

\* A client connects and the handshake succeeds.
Connect(c) ==
    /\ lobby_pc[c].at = "closed"
    /\ lobby_pc' = [lobby_pc EXCEPT ![c] = LobbyAt("idle")]
    /\ player_name' = [player_name EXCEPT ![c] = None]
    /\ UNCHANGED layer_vars
    /\ UNCHANGED review_vars
    /\ UNCHANGED <<games_metadata, rooms, room_id_counter, online_players,
                   developer_pc, procs>>

Login(c, username, db_ok) ==
    /\ lobby_pc[c].at = "idle"
    /\ online_players' = login_online_players(username, c, db_ok)
    /\ player_name' =
         IF login_response(username, db_ok) = "Login successful"
         THEN [player_name EXCEPT ![c] = username]
         ELSE player_name
    /\ UNCHANGED layer_vars
    /\ UNCHANGED review_vars
    /\ UNCHANGED <<games_metadata, rooms, room_id_counter, lobby_pc,
                   developer_pc, procs>>

\* handle_create_room up to the release of games_lock.
CreateRoom(c, data) ==
    /\ LoggedIn(c)
    /\ lobby_pc' =
         IF handle_create_room_check(data) = "continue"
         THEN [lobby_pc EXCEPT ![c] =
                 [at |-> "create_room",
                  game_name |-> data.game_name,
                  server_version |-> games_metadata[data.game_name].version,
                  max_players |-> games_metadata[data.game_name].max_players,
                  player_room |-> NoneInt]]
         ELSE lobby_pc
    /\ UNCHANGED layer_vars
    /\ UNCHANGED review_vars
    /\ UNCHANGED <<games_metadata, rooms, room_id_counter, online_players,
                   player_name, developer_pc, procs>>

\* handle_create_room, the rooms_lock block.
CreateRoomInsert(c) ==
    /\ lobby_pc[c].at = "create_room"
    /\ room_id_counter <= MaxRoomId
    /\ rooms' = DictSet(rooms, generate_room_id,
                        NewRoom(lobby_pc[c].game_name,
                                lobby_pc[c].server_version,
                                player_name[c], lobby_pc[c].max_players))
    /\ room_id_counter' = room_id_counter + 1
    /\ lobby_pc' = [lobby_pc EXCEPT ![c] = LobbyAt("idle")]
    /\ UNCHANGED layer_vars
    /\ UNCHANGED review_vars
    /\ UNCHANGED <<games_metadata, online_players, player_name,
                   developer_pc, procs>>

JoinRoom(c, data) ==
    /\ LoggedIn(c)
    /\ rooms' = handle_join_room_rooms(data, player_name[c])
    /\ UNCHANGED layer_vars
    /\ UNCHANGED review_vars
    /\ UNCHANGED <<games_metadata, room_id_counter, online_players,
                   player_name, lobby_pc, developer_pc, procs>>

LeaveRoom(c, data) ==
    /\ LoggedIn(c)
    /\ rooms' = handle_leave_room_rooms(data, player_name[c])
    /\ procs' = handle_leave_room_procs(data, player_name[c])
    /\ UNCHANGED layer_vars
    /\ UNCHANGED review_vars
    /\ UNCHANGED <<games_metadata, room_id_counter, online_players,
                   player_name, lobby_pc, developer_pc>>

\* The pid of the next subprocess.
next_pid == Cardinality(DOMAIN procs) + 1

\* handle_start_game: the subprocesses that have a monitor thread after the
\* call.  A subprocess that has exited by the end of the grace window gets
\* none and is not kept.
handle_start_game_procs(data, player, alive, pid) ==
    IF handle_start_game_response(data, player, alive)
         = "Game server started! Connect now."
    THEN DictSet(procs, pid,
                 [rid |-> data.room_id, alive |-> TRUE, sigterm |-> FALSE,
                  monitor |-> "waiting"])
    ELSE procs

StartGame(c, data, alive, port) ==
    /\ LoggedIn(c)
    /\ start_game_spawns(data, player_name[c]) /\ alive
         => next_pid <= MaxProcs
    /\ rooms' = handle_start_game_rooms(data, player_name[c], alive,
                                        next_pid, port)
    /\ procs' = handle_start_game_procs(data, player_name[c], alive,
                                        next_pid)
    /\ UNCHANGED layer_vars
    /\ UNCHANGED review_vars
    /\ UNCHANGED <<games_metadata, room_id_counter, online_players,
                   player_name, lobby_pc, developer_pc>>

\* handle_start_game where a room is started again: up to MaxRestarts
\* subprocesses are spawned.
StartGameAgain(c, data, alive, port) ==
    /\ LoggedIn(c)
    /\ start_game_spawns(data, player_name[c]) /\ alive
         => next_pid <= MaxRestarts
    /\ rooms' = handle_start_game_rooms(data, player_name[c], alive,
                                        next_pid, port)
    /\ procs' = handle_start_game_procs(data, player_name[c], alive,
                                        next_pid)
    /\ UNCHANGED layer_vars
    /\ UNCHANGED review_vars
    /\ UNCHANGED <<games_metadata, room_id_counter, online_players,
                   player_name, lobby_pc, developer_pc>>

GetRoomStatus(c, data) ==
    /\ LoggedIn(c)
    /\ rooms' = handle_get_room_status_rooms(data, player_name[c])
    /\ UNCHANGED layer_vars
    /\ UNCHANGED review_vars
    /\ UNCHANGED <<games_metadata, room_id_counter, online_players,
                   player_name, lobby_pc, developer_pc, procs>>

ResetRoom(c, data) ==
    /\ LoggedIn(c)
    /\ rooms' = handle_reset_room_rooms(data, player_name[c])
    /\ procs' = handle_reset_room_procs(data, player_name[c])
    /\ UNCHANGED layer_vars
    /\ UNCHANGED review_vars
    /\ UNCHANGED <<games_metadata, room_id_counter, online_players,
                   player_name, lobby_pc, developer_pc>>

PlayerReady(c, data, all_ready, alive, port) ==
    /\ LoggedIn(c)
    /\ player_ready_spawns(data, player_name[c], all_ready)
         => next_pid <= MaxProcs
    /\ rooms' = handle_player_ready_rooms(data, player_name[c], all_ready,
                                          alive, next_pid, port)
    /\ procs' =
         IF player_ready_spawns(data, player_name[c], all_ready) /\ alive
         THEN DictSet(procs, next_pid,
                      [rid |-> data.room_id, alive |-> TRUE,
                       sigterm |-> FALSE, monitor |-> "waiting"])
         ELSE procs
    /\ UNCHANGED layer_vars
    /\ UNCHANGED review_vars
    /\ UNCHANGED <<games_metadata, room_id_counter, online_players,
                   player_name, lobby_pc, developer_pc>>

CancelReadyCheck(c, data) ==
    /\ LoggedIn(c)
    /\ rooms' = handle_cancel_ready_check_rooms(data, player_name[c])
    /\ UNCHANGED layer_vars
    /\ UNCHANGED review_vars
    /\ UNCHANGED <<games_metadata, room_id_counter, online_players,
                   player_name, lobby_pc, developer_pc, procs>>

DownloadData == [game_name : Games]
SubmitReviewData ==
    [game_name : Games, rating : RatingInputs \cup {KeyAbsent},
     comment : Comments]

DownloadGame(c, data) ==
    /\ LoggedIn(c)
    /\ handle_download_game_response(data, player_name[c]) = "success"
         => games_metadata[data.game_name].download_count < MaxDownloads
    /\ games_metadata' = handle_download_game_games(data, player_name[c])
    /\ players_json' = handle_download_game_players(data, player_name[c])
    /\ UNCHANGED layer_vars
    /\ UNCHANGED <<rooms, room_id_counter, online_players, player_name,
                   lobby_pc, developer_pc, procs, reviews, review_locals>>

\* get_reviews: a request that changes nothing.
GetReviewsData == [game_name : Games \cup {"ghost", None}]
GetReviews(c, data) ==
    /\ LoggedIn(c)
    /\ handle_get_reviews_response(data).status \in {"success", "error"}
    /\ UNCHANGED vars

\* handle_submit_review up to the release of the first games_lock.
SubmitReview(c, data) ==
    /\ LoggedIn(c)
    /\ IF handle_submit_review_check(data) = "continue"
       THEN /\ lobby_pc' = [lobby_pc EXCEPT
                              ![c] = LobbyAt("review_downloaded")]
            /\ review_locals' = [review_locals EXCEPT ![c] =
                                   [game_name |-> data.game_name,
                                    rating |-> data.rating,
                                    comment |-> data.comment,
                                    reviews |-> <<>>]]
       ELSE UNCHANGED <<lobby_pc, review_locals>>
    /\ UNCHANGED layer_vars
    /\ UNCHANGED <<games_metadata, rooms, room_id_counter, online_players,
                   player_name, developer_pc, procs, reviews, players_json>>

\* handle_submit_review, the online_players_lock block.
SubmitReviewDownloaded(c) ==
    /\ lobby_pc[c].at = "review_downloaded"
    /\ IF handle_submit_review_downloaded(review_locals[c].game_name,
                                          player_name[c]) = "continue"
       THEN /\ lobby_pc' = [lobby_pc EXCEPT ![c] = LobbyAt("review_write")]
            /\ UNCHANGED review_locals
       ELSE /\ lobby_pc' = [lobby_pc EXCEPT ![c] = LobbyAt("idle")]
            /\ review_locals' = [review_locals EXCEPT ![c] = NoReviewLocals]
    /\ UNCHANGED layer_vars
    /\ UNCHANGED <<games_metadata, rooms, room_id_counter, online_players,
                   player_name, developer_pc, procs, reviews, players_json>>

\* handle_submit_review, the reviews_lock block.
SubmitReviewWrite(c) ==
    /\ lobby_pc[c].at = "review_write"
    /\ reviews' = handle_submit_review_reviews(
                     review_locals[c].game_name, player_name[c],
                     review_locals[c].rating, review_locals[c].comment)
    /\ review_locals' = [review_locals EXCEPT ![c].reviews =
                           handle_submit_review_list(
                             review_locals[c].game_name, player_name[c],
                             review_locals[c].rating,
                             review_locals[c].comment)]
    /\ lobby_pc' = [lobby_pc EXCEPT ![c] = LobbyAt("review_aggregate")]
    /\ UNCHANGED layer_vars
    /\ UNCHANGED <<games_metadata, rooms, room_id_counter, online_players,
                   player_name, developer_pc, procs, players_json>>

\* handle_submit_review, the last games_lock block, then the reply.
SubmitReviewAggregate(c) ==
    /\ lobby_pc[c].at = "review_aggregate"
    /\ games_metadata' = handle_submit_review_games(
                            review_locals[c].game_name,
                            review_locals[c].reviews)
    /\ review_locals' = [review_locals EXCEPT ![c] = NoReviewLocals]
    /\ lobby_pc' = [lobby_pc EXCEPT ![c] = LobbyAt("idle")]
    /\ UNCHANGED layer_vars
    /\ UNCHANGED <<rooms, room_id_counter, online_players, player_name,
                   developer_pc, procs, reviews, players_json>>

\* recv_frame returns None (the peer closed): the finally block starts.
Disconnect(c) ==
    /\ lobby_pc[c].at = "idle"
    /\ lobby_pc' = [lobby_pc EXCEPT ![c] =
                      IF Truthy(player_name[c]) THEN LobbyAt("cleanup_scan")
                      ELSE LobbyAt("closed")]
    /\ UNCHANGED layer_vars
    /\ UNCHANGED review_vars
    /\ UNCHANGED <<games_metadata, rooms, room_id_counter, online_players,
                   player_name, developer_pc, procs>>

\* finally, step 1: look for the player's room.
CleanupScan(c) ==
    /\ lobby_pc[c].at = "cleanup_scan"
    /\ lobby_pc' = [lobby_pc EXCEPT ![c] =
                      IF TruthyInt(player_room_of(player_name[c]))
                      THEN [LobbyAt("cleanup_leave") EXCEPT
                              !.player_room = player_room_of(player_name[c])]
                      ELSE LobbyAt("cleanup_presence")]
    /\ UNCHANGED layer_vars
    /\ UNCHANGED review_vars
    /\ UNCHANGED <<games_metadata, rooms, room_id_counter, online_players,
                   player_name, developer_pc, procs>>

\* finally, step 1 continued: handle_leave_room on the room found.
CleanupLeave(c) ==
    /\ lobby_pc[c].at = "cleanup_leave"
    /\ rooms' = handle_leave_room_rooms([room_id |-> lobby_pc[c].player_room],
                                        player_name[c])
    /\ procs' = handle_leave_room_procs([room_id |-> lobby_pc[c].player_room],
                                        player_name[c])
    /\ lobby_pc' = [lobby_pc EXCEPT ![c] = LobbyAt("cleanup_presence")]
    /\ UNCHANGED layer_vars
    /\ UNCHANGED review_vars
    /\ UNCHANGED <<games_metadata, room_id_counter, online_players,
                   player_name, developer_pc>>

\* finally, step 2: drop the presence entry, close the connection.
CleanupPresence(c) ==
    /\ lobby_pc[c].at = "cleanup_presence"
    /\ online_players' = cleanup_online_players(player_name[c])
    /\ lobby_pc' = [lobby_pc EXCEPT ![c] = LobbyAt("closed")]
    /\ player_name' = [player_name EXCEPT ![c] = None]
    /\ UNCHANGED layer_vars
    /\ UNCHANGED review_vars
    /\ UNCHANGED <<games_metadata, rooms, room_id_counter, developer_pc,
                   procs>>

\* A game-server subprocess exits: on its own, or on the SIGTERM that
\* leave_room, reset_room and the catalog cascades send to it.
ProcExit(pid) ==
    /\ pid \in DOMAIN procs
    /\ procs[pid].alive
    /\ procs' = [procs EXCEPT ![pid].alive = FALSE, ![pid].sigterm = FALSE]
    /\ UNCHANGED layer_vars
    /\ UNCHANGED review_vars
    /\ UNCHANGED <<games_metadata, rooms, room_id_counter, online_players,
                   player_name, lobby_pc, developer_pc>>

\* The monitor thread of a subprocess wakes up from proc.wait().
Monitor(pid) ==
    /\ Exited(pid)
    /\ procs[pid].monitor = "waiting"
    /\ rooms' = monitor_game_server_rooms(procs[pid].rid)
    /\ procs' = [procs EXCEPT ![pid].monitor = "done"]
    /\ UNCHANGED layer_vars
    /\ UNCHANGED review_vars
    /\ UNCHANGED <<games_metadata, room_id_counter, online_players,
                   player_name, lobby_pc, developer_pc>>

Pids == 1..MaxProcs

\* ------------------------------------------- handshake and request frames
\* A frame as a connection thread sees it.  kind is "empty" (recv_frame gave
\* nothing), "invalid_utf8", "invalid_json", "not_object" (JSON that is not
\* an object) or "object"; of an object frame, client_type and action are
\* the values of those keys (None without the key), data_ok tells whether
\* "data" is absent or an object, and username is data's "username", the
\* one key the data of a frame of the model may hold (upload_game apart,
\* whose data is SessionUpload).
Frame(kind, client_type, action, data_ok, username) ==
    [kind |-> kind, client_type |-> client_type, action |-> action,
     data_ok |-> data_ok, username |-> username]

BrokenFrames ==
    {Frame(k, None, None, TRUE, None) :
       k \in {"empty", "invalid_utf8", "invalid_json", "not_object"}}
HandshakeFrames ==
    BrokenFrames \cup
    {Frame("object", t, None, TRUE, None) :
       t \in {"developer", "player", "admin", None}}

\* The actions each dispatch chain names in a branch of its own.
DeveloperActions ==
    {"login", "register", "upload_game", "update_game", "remove_game",
     "list_my_games"}
LobbyActions ==
    {"list_games", "get_game_info", "register", "login", "download_game",
     "submit_review", "create_room", "list_rooms", "list_online_players",
     "get_room_status", "get_reviews", "join_room", "leave_room",
     "start_game", "player_ready", "cancel_ready_check", "reset_room"}
\* The list the developer chain tests for "a player action".
DeveloperWrongPortList ==
    {"register", "list_games", "download_game", "create_room", "join_room",
     "leave_room", "start_game", "get_room_status", "list_rooms"}
\* The list the lobby chain tests for "a developer action".
LobbyWrongPortList ==
    {"upload_game", "update_game", "remove_game", "list_my_games"}
WrongPortDeveloper == "This is the Developer Server, use the Lobby port"
WrongPortLobby == "This is the Lobby Server, use the Developer port"

\* What a pass of a request loop ends in when it writes no frame: the loop
\* ends on an empty frame, or an exception leaves the loop.
Break == "break"
Raised == "raised"

\* The client_type the listener of a connection asks for.
listener_role(conn) == IF conn \in DevConns THEN "developer" ELSE "player"
\* Where the thread of a connection stands.
thread_at(conn) ==
    IF conn \in DevConns THEN dev_session[conn].at ELSE lobby_pc[conn].at

\* The handshake of a listener serving `role`: "success" (success frame,
\* then the request loop), "error" (one error frame, then close) or "close"
\* (no frame at all).
handshake_reply_any_type(role, frame) ==
    IF frame.kind # "object" THEN "close" ELSE "success"
handshake_reply(role, frame) ==
    IF frame.kind # "object" THEN "close"
    ELSE IF frame.client_type # role THEN "error"
    ELSE "success"

\* The upload a developer session of the model sends.
SessionUpload ==
    [game_name |-> "tic", version |-> "1.0.0", max_players |-> 2,
     server_command |-> TRUE, start_command |-> GoodStartCommand]

\* handle_developer_login as the loop sees it.
handle_developer_login_response(frame, db_ok) ==
    IF ~frame.data_ok THEN Raised
    ELSE IF ~Truthy(frame.username) THEN "Missing credentials"
    ELSE IF db_ok THEN "Login successful"
    ELSE "Invalid username or password"

\* One pass of the request loop of handle_developer_client: the message of
\* the response frame, or Break / Raised.
handle_developer_client_response(frame, developer_name, db_ok) ==
    IF frame.kind = "empty" THEN Break
    ELSE IF frame.kind = "invalid_json" THEN "Invalid JSON"
    ELSE IF frame.kind # "object" THEN Raised
    ELSE IF frame.action = "login"
    THEN handle_developer_login_response(frame, db_ok)
    ELSE IF frame.action = "register"
    THEN IF ~frame.data_ok THEN Raised
         ELSE IF ~Truthy(frame.username) THEN "Missing credentials"
         ELSE IF db_ok THEN "Registered" ELSE "Register failed"
    ELSE IF ~Truthy(developer_name) THEN "Please login first"
    ELSE IF frame.action = "upload_game"
    THEN IF ~frame.data_ok THEN Raised
         ELSE handle_upload_game_response(SessionUpload, developer_name)
    ELSE IF frame.action \in {"update_game", "remove_game"}
    THEN IF ~frame.data_ok THEN Raised
         ELSE IF frame.action = "update_game" THEN "Missing required fields"
         ELSE "Missing game_name"
    ELSE IF frame.action = "list_my_games" THEN "success"
    ELSE IF frame.action \in DeveloperWrongPortList THEN WrongPortDeveloper
    ELSE "Unknown action"

\* Mutant of handle_developer_client_name: every login frame that names a
\* user binds the session.
handle_developer_client_name_any_login(frame, developer_name, db_ok) ==
    IF frame.kind = "object" /\ frame.action = "login"
       /\ Truthy(frame.username)
    THEN frame.username
    ELSE developer_name

handle_developer_client_name(frame, developer_name, db_ok) ==
    IF /\ frame.kind = "object"
       /\ frame.action = "login"
       /\ handle_developer_login_response(frame, db_ok) = "Login successful"
    THEN frame.username
    ELSE developer_name

handle_developer_client_games(frame, developer_name, db_ok) ==
    IF /\ frame.kind = "object"
       /\ frame.action = "upload_game"
       /\ Truthy(developer_name)
       /\ frame.data_ok
    THEN handle_upload_game_games(SessionUpload, developer_name)
    ELSE games_metadata

ServerError == "Server error while handling the action"

\* The branches of the lobby chain, executed inside the inner try.
handle_lobby_client_branch(frame, player, db_ok) ==
    IF frame.action \in {"list_games"} THEN "success"
    ELSE IF frame.action = "get_game_info"
    THEN IF frame.data_ok THEN "Missing game_name" ELSE ServerError
    ELSE IF frame.action = "register"
    THEN IF ~frame.data_ok THEN ServerError
         ELSE IF ~Truthy(frame.username) THEN "Missing username or password"
         ELSE IF db_ok THEN "Registered" ELSE "Register failed"
    ELSE IF frame.action = "login"
    THEN IF ~frame.data_ok THEN ServerError
         ELSE IF ~Truthy(frame.username) THEN "Missing username or password"
         ELSE login_response(frame.username, db_ok)
    ELSE IF ~Truthy(player) THEN "Please login first"
    ELSE IF frame.action \in {"download_game", "create_room", "get_reviews"}
    THEN IF frame.data_ok THEN "Missing game_name" ELSE ServerError
    ELSE IF frame.action = "submit_review"
    THEN IF frame.data_ok THEN "Missing required fields" ELSE ServerError
    ELSE IF frame.action \in {"list_rooms", "list_online_players"}
    THEN "success"
    ELSE IF frame.action \in {"get_room_status", "join_room", "leave_room",
                              "start_game", "player_ready",
                              "cancel_ready_check", "reset_room"}
    THEN IF frame.data_ok THEN "Missing room_id" ELSE ServerError
    ELSE IF frame.action \in LobbyWrongPortList THEN WrongPortLobby
    ELSE "Unknown action"

\* One pass of the request loop of handle_lobby_client.
handle_lobby_client_response(frame, player, db_ok) ==
    IF frame.kind = "empty" THEN Break
    ELSE IF frame.kind = "invalid_json" THEN "Invalid JSON"
    ELSE IF frame.kind # "object" THEN Raised
    ELSE handle_lobby_client_branch(frame, player, db_ok)

handle_lobby_client_logs_in(frame, player, db_ok) ==
    /\ frame.kind = "object"
    /\ frame.action = "login"
    /\ handle_lobby_client_branch(frame, player, db_ok) = "Login successful"

\* The request frames of the model.
DeveloperRequestFrames ==
    BrokenFrames \cup
    {Frame("object", None, a, ok, u) :
       a \in {"login"}, ok \in BOOLEAN, u \in {"dev1", None}} \cup
    {Frame("object", None, a, TRUE, None) :
       a \in (DeveloperActions \cup LobbyActions
                \cup {"ping", None}) \ {"login"}}
LobbyRequestFrames ==
    BrokenFrames \cup
    {Frame("object", None, a, ok, u) :
       a \in {"login"}, ok \in BOOLEAN, u \in {"p1", None}} \cup
    {Frame("object", None, a, TRUE, None) :
       a \in (DeveloperActions \cup LobbyActions
                \cup {"ping", None}) \ {"login"}}

\* accept() on the lobby port: a connection thread starts.
LobbyAccept(c) ==
    /\ lobby_pc[c].at = "closed"
    /\ lobby_pc' = [lobby_pc EXCEPT ![c] = LobbyAt("handshake")]
    /\ frames' = [frames EXCEPT ![c] = NoFrames]
    /\ UNCHANGED <<dev_session, lock_owner, lock_pc, game_dirs, bundles,
                   wire>>
    /\ UNCHANGED review_vars
    /\ UNCHANGED <<games_metadata, rooms, room_id_counter, online_players,
                   player_name, developer_pc, procs>>

\* The handshake of handle_lobby_client on the first frame.
LobbyHandshake(c, frame) ==
    /\ lobby_pc[c].at = "handshake"
    /\ frames' = [frames EXCEPT
                    ![c].handshake = frame,
                    ![c].handshake_reply = handshake_reply("player", frame),
                    ![c].written =
                       IF handshake_reply("player", frame) = "close"
                       THEN 0 ELSE 1]
    /\ lobby_pc' = [lobby_pc EXCEPT ![c] =
                      IF handshake_reply("player", frame) = "success"
                      THEN LobbyAt("idle") ELSE LobbyAt("closed")]
    /\ UNCHANGED <<dev_session, lock_owner, lock_pc, game_dirs, bundles,
                   wire>>
    /\ UNCHANGED review_vars
    /\ UNCHANGED <<games_metadata, rooms, room_id_counter, online_players,
                   player_name, developer_pc, procs>>

\* recv_frame of the lobby request loop returns a frame.
LobbyRecv(c, frame) ==
    /\ lobby_pc[c].at = "idle"
    /\ frames[c].read < MaxFrames
    /\ frames' = [frames EXCEPT ![c].read = @ + 1, ![c].request = frame]
    /\ lobby_pc' = [lobby_pc EXCEPT ![c] = LobbyAt("dispatch")]
    /\ UNCHANGED <<dev_session, lock_owner, lock_pc, game_dirs, bundles,
                   wire>>
    /\ UNCHANGED review_vars
    /\ UNCHANGED <<games_metadata, rooms, room_id_counter, online_players,
                   player_name, developer_pc, procs>>

\* The rest of the pass: json.loads, the dispatch chain, send_frame; or the
\* way out of the loop into the finally block.
LobbyHandle(c, db_ok) ==
    /\ lobby_pc[c].at = "dispatch"
    /\ LET frame == frames[c].request
           response ==
               handle_lobby_client_response(frame, player_name[c], db_ok)
           logs_in ==
               handle_lobby_client_logs_in(frame, player_name[c], db_ok)
       IN  /\ online_players' =
                 IF logs_in THEN DictSet(online_players, frame.username, c)
                 ELSE online_players
           /\ player_name' =
                 IF logs_in THEN [player_name EXCEPT ![c] = frame.username]
                 ELSE player_name
           /\ frames' = [frames EXCEPT
                           ![c].request = NoFrame,
                           ![c].written =
                              IF response \in {Break, Raised}
                              THEN @ ELSE @ + 1,
                           ![c].response =
                              IF response \in {Break, Raised}
                              THEN @ ELSE response]
           /\ lobby_pc' = [lobby_pc EXCEPT ![c] =
                             IF response \notin {Break, Raised}
                             THEN LobbyAt("idle")
                             ELSE IF Truthy(player_name[c])
                             THEN LobbyAt("cleanup_scan")
                             ELSE LobbyAt("closed")]
    /\ UNCHANGED <<dev_session, lock_owner, lock_pc, game_dirs, bundles,
                   wire>>
    /\ UNCHANGED review_vars
    /\ UNCHANGED <<games_metadata, rooms, room_id_counter, developer_pc,
                   procs>>

\* accept() on the developer port.
DevAccept(k) ==
    /\ dev_session[k].at = "closed"
    /\ dev_session' = [dev_session EXCEPT ![k] = DevSessionAt("handshake",
                                                             None)]
    /\ frames' = [frames EXCEPT ![k] = NoFrames]
    /\ UNCHANGED <<lock_owner, lock_pc, game_dirs, bundles,
                   wire>>
    /\ UNCHANGED review_vars
    /\ UNCHANGED <<games_metadata, rooms, room_id_counter, online_players,
                   player_name, lobby_pc, developer_pc, procs>>

\* The handshake of handle_developer_client on the first frame.
DevHandshake(k, frame) ==
    /\ dev_session[k].at = "handshake"
    /\ frames' = [frames EXCEPT
                    ![k].handshake = frame,
                    ![k].handshake_reply =
                       handshake_reply("developer", frame),
                    ![k].written =
                       IF handshake_reply("developer", frame) = "close"
                       THEN 0 ELSE 1]
    /\ dev_session' = [dev_session EXCEPT ![k].at =
                         IF handshake_reply("developer", frame) = "success"
                         THEN "recv" ELSE "closed"]
    /\ UNCHANGED <<lock_owner, lock_pc, game_dirs, bundles,
                   wire>>
    /\ UNCHANGED review_vars
    /\ UNCHANGED <<games_metadata, rooms, room_id_counter, online_players,
                   player_name, lobby_pc, developer_pc, procs>>

\* recv_frame of the developer request loop returns a frame.
DevRecv(k, frame) ==
    /\ dev_session[k].at = "recv"
    /\ frames[k].read < MaxFrames
    /\ frames' = [frames EXCEPT ![k].read = @ + 1, ![k].request = frame]
    /\ dev_session' = [dev_session EXCEPT ![k].at = "dispatch"]
    /\ UNCHANGED <<lock_owner, lock_pc, game_dirs, bundles,
                   wire>>
    /\ UNCHANGED review_vars
    /\ UNCHANGED <<games_metadata, rooms, room_id_counter, online_players,
                   player_name, lobby_pc, developer_pc, procs>>

\* The rest of the pass of the developer loop.
DevHandle(k, db_ok) ==
    /\ dev_session[k].at = "dispatch"
    /\ LET frame == frames[k].request
           developer_name == dev_session[k].developer_name
           response ==
               handle_developer_client_response(frame, developer_name, db_ok)
       IN  /\ games_metadata' =
                 handle_developer_client_games(frame, developer_name, db_ok)
           /\ frames' = [frames EXCEPT
                           ![k].request = NoFrame,
                           ![k].written =
                              IF response \in {Break, Raised}
                              THEN @ ELSE @ + 1,
                           ![k].response =
                              IF response \in {Break, Raised}
                              THEN @ ELSE response]
           /\ dev_session' = [dev_session EXCEPT ![k] =
                 IF response \in {Break, Raised}
                 THEN DevSessionAt("closed", None)
                 ELSE DevSessionAt("recv",
                        handle_developer_client_name(frame, developer_name,
                                                     db_ok))]
    /\ UNCHANGED <<lock_owner, lock_pc, game_dirs, bundles,
                   wire>>
    /\ UNCHANGED review_vars
    /\ UNCHANGED <<rooms, room_id_counter, online_players, player_name,
                   lobby_pc, developer_pc, procs>>

\* recv_frame of the developer request loop returns nothing: the client has
\* closed the connection.
DevEOF(k) ==
    /\ dev_session[k].at = "recv"
    /\ dev_session' = [dev_session EXCEPT ![k] = DevSessionAt("closed", None)]
    /\ UNCHANGED <<frames, lock_owner, lock_pc, game_dirs, bundles,
                   wire>>
    /\ UNCHANGED review_vars
    /\ UNCHANGED <<games_metadata, rooms, room_id_counter, online_players,
                   player_name, lobby_pc, developer_pc, procs>>

\* ------------------------------------------------------------- the locks
\* The lock events of a handler, in program order, as its `with` blocks
\* nest.
Acquire(l) == [op |-> "acquire", lock |-> l]
Release(l) == [op |-> "release", lock |-> l]
Section(l) == <<Acquire(l), Release(l)>>
Nested(outer, inner) ==
    <<Acquire(outer), Acquire(inner), Release(inner), Release(outer)>>

LockHandlers ==
    {"upload_game", "update_game", "remove_game", "list_my_games",
     "create_room", "list_rooms", "list_online_players",
     "get_room_status", "get_room_status_playing", "join_room",
     "leave_room", "start_game_rejected", "start_game", "monitor",
     "player_ready", "player_ready_all", "cancel_ready_check", "reset_room",
     "list_games", "get_game_info", "download_game_rejected",
     "download_game", "submit_review", "login", "teardown"}

\* Mutant of LockScript: download_game takes rooms_lock inside games_lock.
LockScript_download_in_rooms(handler) ==
    IF handler = "download_game" THEN Nested("games_lock", "rooms_lock")
    ELSE IF handler \in {"get_room_status_playing", "start_game",
                         "player_ready_all"}
    THEN Nested("rooms_lock", "games_lock")
    ELSE Section("rooms_lock")

\* The handlers with two entries differ in the path taken: get_room_status
\* reads the catalog only for a playing room, start_game and download_game
\* only past their checks, player_ready only when the last player is ready.
LockScript(handler) ==
    CASE handler \in {"upload_game", "list_my_games", "list_games",
                      "get_game_info", "download_game_rejected"}
           -> Section("games_lock")
      [] handler \in {"update_game", "remove_game", "create_room"}
           -> Section("games_lock") \o Section("rooms_lock")
      [] handler \in {"list_rooms", "get_room_status", "join_room",
                      "leave_room", "start_game_rejected", "monitor",
                      "player_ready", "cancel_ready_check", "reset_room"}
           -> Section("rooms_lock")
      [] handler = "list_online_players"
           -> Section("online_players_lock") \o Section("rooms_lock")
      [] handler \in {"get_room_status_playing", "start_game",
                      "player_ready_all"}
           -> Nested("rooms_lock", "games_lock")
      [] handler = "download_game"
           -> Nested("games_lock", "online_players_lock")
      [] handler = "submit_review"
           -> Section("games_lock") \o Section("online_players_lock")
                \o Section("reviews_lock") \o Section("games_lock")
      [] handler = "login"
           -> Section("online_players_lock")
      [] handler = "teardown"
           -> Section("online_players_lock") \o Section("rooms_lock")
                \o Section("online_players_lock")

\* A thread enters a handler.
LockCall(t, handler) ==
    /\ lock_pc[t].handler = "idle"
    /\ lock_pc' = [lock_pc EXCEPT ![t] = LockAt(handler, 0)]
    /\ UNCHANGED <<frames, dev_session, lock_owner, game_dirs, bundles,
                   wire>>
    /\ UNCHANGED review_vars
    /\ UNCHANGED <<games_metadata, rooms, room_id_counter, online_players,
                   player_name, lobby_pc, developer_pc, procs>>

\* The position a thread has after its next lock event: back to idle after
\* the last one.
lock_pc_next(t) ==
    IF lock_pc[t].passed + 1 = Len(LockScript(lock_pc[t].handler))
    THEN LockAt("idle", 0)
    ELSE LockAt(lock_pc[t].handler, lock_pc[t].passed + 1)

\* `with lock:` is entered: threading.Lock blocks while the lock is held,
\* by any thread.
LockAcquire(t) ==
    /\ lock_pc[t].handler # "idle"
    /\ LET event == LockScript(lock_pc[t].handler)[lock_pc[t].passed + 1]
       IN  /\ event.op = "acquire"
           /\ lock_owner[event.lock] = None
           /\ lock_owner' = [lock_owner EXCEPT ![event.lock] = t]
    /\ lock_pc' = [lock_pc EXCEPT ![t] = lock_pc_next(t)]
    /\ UNCHANGED <<frames, dev_session, game_dirs, bundles,
                   wire>>
    /\ UNCHANGED review_vars
    /\ UNCHANGED <<games_metadata, rooms, room_id_counter, online_players,
                   player_name, lobby_pc, developer_pc, procs>>

\* A `with lock:` block is left.
LockRelease(t) ==
    /\ lock_pc[t].handler # "idle"
    /\ LET event == LockScript(lock_pc[t].handler)[lock_pc[t].passed + 1]
       IN  /\ event.op = "release"
           /\ lock_owner' = [lock_owner EXCEPT ![event.lock] = None]
    /\ lock_pc' = [lock_pc EXCEPT ![t] = lock_pc_next(t)]
    /\ UNCHANGED <<frames, dev_session, game_dirs, bundles,
                   wire>>
    /\ UNCHANGED review_vars
    /\ UNCHANGED <<games_metadata, rooms, room_id_counter, online_players,
                   player_name, lobby_pc, developer_pc, procs>>

\* ------------------------------------------------------ the bundle files
\* The times a file may carry: 1 is the time the developer's files were
\* written, 2 a later time.
Times == {1, 2}

Injective(s) == \A i, j \in DOMAIN s : s[i] = s[j] => i = j
\* The archives a developer sends: main.py alone, or main.py and lib.py in
\* either order, written at time 1, stored or deflated.
SentEntry(name, content) ==
    [name |-> name, content |-> content, date_time |-> 1]
SentArchives ==
    {Archive(entries, method) :
       entries \in {<<SentEntry("main.py", "a")>>,
                    <<SentEntry("main.py", "b")>>,
                    <<SentEntry("main.py", "a"), SentEntry("lib.py", "a")>>,
                    <<SentEntry("lib.py", "a"), SentEntry("main.py", "b")>>},
       method \in {"stored", "deflated"}}

EntryNames(archive) ==
    {archive.entries[i].name : i \in DOMAIN archive.entries}
EntryOf(archive, name) ==
    archive.entries[CHOOSE i \in DOMAIN archive.entries :
                      /\ archive.entries[i].name = name
                      /\ \A j \in DOMAIN archive.entries :
                            archive.entries[j].name = name => j <= i]

\* The files of a bundle directory, an empty directory when there is none.
DirOf(game_name, version) ==
    IF <<game_name, version>> \in DOMAIN game_dirs
    THEN game_dirs[<<game_name, version>>]
    ELSE EmptyDict

\* ZipFile.extractall into a directory at time `now`: every entry is written
\* over what is there, every other file stays.
extractall(dir, archive, now) ==
    [name \in DOMAIN dir \cup EntryNames(archive) |->
       IF name \in EntryNames(archive)
       THEN [content |-> EntryOf(archive, name).content, mtime |-> now]
       ELSE dir[name]]

\* handle_upload_game: the directory of the version after the call.
handle_upload_game_dirs(data, developer_name, archive, now) ==
    IF handle_upload_game_response(data, developer_name)
         # "Game uploaded successfully"
    THEN game_dirs
    ELSE DictSet(game_dirs, <<data.game_name, upload_version(data)>>,
                 extractall(DirOf(data.game_name, upload_version(data)),
                            archive, now))

\* handle_update_game: the directory of the new version after the call.
handle_update_game_dirs(data, developer_name, archive, now) ==
    IF handle_update_game_check(data, developer_name) # "continue"
    THEN game_dirs
    ELSE DictSet(game_dirs, <<data.game_name, data.version>>,
                 extractall(DirOf(data.game_name, data.version),
                            archive, now))

\* handle_remove_game: shutil.rmtree of the game's directory, every version
\* with it.
handle_remove_game_dirs(data, developer_name) ==
    IF handle_remove_game_check(data, developer_name) # "continue"
    THEN game_dirs
    ELSE [key \in {k \in DOMAIN game_dirs : k[1] # data.game_name} |->
            game_dirs[key]]

\* The orders in which os.walk may list the files of a directory.
Walks(dir) ==
    {walk \in [1..Cardinality(DOMAIN dir) -> DOMAIN dir] : Injective(walk)}

\* handle_download_game: the archive packed from the directory of the
\* catalog's version, the files in the order of the walk.
handle_download_game_bundle(dir, walk) ==
    Archive([i \in DOMAIN walk |->
               [name |-> walk[i], content |-> dir[walk[i]].content,
                date_time |-> dir[walk[i]].mtime]],
            "deflated")

BundleUploads ==
    {data \in UploadData :
       /\ data.max_players = 2
       /\ data.start_command = GoodStartCommand
       /\ data.server_command}

\* handle_upload_game with its files.
UploadGameFiles(d, data, archive, now) ==
    /\ developer_pc[d].at = "idle"
    /\ games_metadata' = handle_upload_game_games(data, d)
    /\ game_dirs' = handle_upload_game_dirs(data, d, archive, now)
    /\ bundles' =
         IF handle_upload_game_response(data, d)
              = "Game uploaded successfully"
         THEN [bundles EXCEPT ![data.game_name] =
                 [sent |-> archive, received |-> NoArchive]]
         ELSE bundles
    /\ UNCHANGED <<frames, dev_session, lock_owner, lock_pc,
                   wire>>
    /\ UNCHANGED review_vars
    /\ UNCHANGED <<rooms, room_id_counter, online_players, player_name,
                   lobby_pc, developer_pc, procs>>

\* handle_update_game with its files, up to the release of games_lock.
UpdateGameFiles(d, data, archive, now) ==
    /\ developer_pc[d].at = "idle"
    /\ games_metadata' = handle_update_game_games(data, d)
    /\ game_dirs' = handle_update_game_dirs(data, d, archive, now)
    /\ bundles' =
         IF handle_update_game_check(data, d) = "continue"
         THEN [bundles EXCEPT ![data.game_name] =
                 [sent |-> archive, received |-> NoArchive]]
         ELSE bundles
    /\ developer_pc' =
         IF handle_update_game_check(data, d) = "continue"
         THEN [developer_pc EXCEPT
                 ![d] = DevAt("update_cascade", data.game_name)]
         ELSE developer_pc
    /\ UNCHANGED <<frames, dev_session, lock_owner, lock_pc,
                   wire>>
    /\ UNCHANGED review_vars
    /\ UNCHANGED <<rooms, room_id_counter, online_players, player_name,
                   lobby_pc, procs>>

\* handle_remove_game with its files, up to the release of games_lock.
RemoveGameFiles(d, data) ==
    /\ developer_pc[d].at = "idle"
    /\ games_metadata' = handle_remove_game_games(data, d)
    /\ game_dirs' = handle_remove_game_dirs(data, d)
    /\ bundles' =
         IF handle_remove_game_check(data, d) = "continue"
         THEN [bundles EXCEPT ![data.game_name] =
                 [sent |-> NoArchive, received |-> NoArchive]]
         ELSE bundles
    /\ developer_pc' =
         IF handle_remove_game_check(data, d) = "continue"
         THEN [developer_pc EXCEPT
                 ![d] = DevAt("remove_cascade", data.game_name)]
         ELSE developer_pc
    /\ UNCHANGED <<frames, dev_session, lock_owner, lock_pc,
                   wire>>
    /\ UNCHANGED review_vars
    /\ UNCHANGED <<rooms, room_id_counter, online_players, player_name,
                   lobby_pc, procs>>

\* handle_download_game with the bundle it returns.
DownloadGameFiles(c, data) ==
    /\ LoggedIn(c)
    /\ handle_download_game_response(data, player_name[c]) = "success"
    /\ games_metadata[data.game_name].download_count < MaxDownloads
    /\ games_metadata' = handle_download_game_games(data, player_name[c])
    /\ players_json' = handle_download_game_players(data, player_name[c])
    /\ LET dir == DirOf(data.game_name,
                        games_metadata[data.game_name].version)
       IN  \E walk \in Walks(dir) :
              bundles' = [bundles EXCEPT ![data.game_name].received =
                            handle_download_game_bundle(dir, walk)]
    /\ UNCHANGED <<frames, dev_session, lock_owner, lock_pc, game_dirs,
                   wire>>
    /\ UNCHANGED <<rooms, room_id_counter, online_players, player_name,
                   lobby_pc, developer_pc, procs, reviews, review_locals>>

\* ------------------------------------------------------------ lpfp frames
\* The two copies of lpfp.py: tetris/lpfp.py and bomb/lpfp.py.
LpfpCopies == {"tetris", "bomb"}
\* The payloads of the model: at most MaxPayload bytes.
PayloadBytes == {0, 255}
Payloads == UNION {[1..n -> PayloadBytes] : n \in 0..MaxPayload}
\* The limit recv_frame of tetris/lpfp.py puts on the length prefix.
FrameLimit == 10 * 1024 * 1024
\* Length prefixes above the limit that a peer may write.
LongHeaders == {<<0, 160, 0, 1>>, <<1, 0, 0, 0>>}

\* struct.pack("!I", n) and n.to_bytes(4, byteorder='big').
to_bytes(n) ==
    <<(n \div 16777216) % 256, (n \div 65536) % 256, (n \div 256) % 256,
      n % 256>>
\* struct.unpack("!I", b) and int.from_bytes(b, byteorder='big').
from_bytes(b) == b[1] * 16777216 + b[2] * 65536 + b[3] * 256 + b[4]

\* The bytes send_frame hands to sendall.
send_frame(payload) == to_bytes(Len(payload)) \o payload

\* The sizes conn.recv(n) may return while bytes are pending: at least one
\* byte, at most n, at most what has arrived.
recv_sizes(n) ==
    {k \in 1..n : k <= Len(wire.pending)}
Rest(bytes, k) == SubSeq(bytes, k + 1, Len(bytes))

\* What recv_frame does once it holds the four bytes of the header.
recv_frame_after_header(copy, header) ==
    IF copy = "tetris" /\ from_bytes(header) > FrameLimit
    THEN [at |-> "done", returned |-> "None"]
    ELSE IF from_bytes(header) = 0
    THEN [at |-> "done", returned |-> "data"]
    ELSE [at |-> "data", returned |-> "nothing"]

\* send_frame(conn, payload) on a new connection whose reader runs `copy` and
\* calls recv_frame: sendall writes the whole frame, or the connection
\* breaks after `written` bytes of it.
SendFrame(copy, payload, written) ==
    /\ wire.at = "idle"
    /\ written \in 0..Len(send_frame(payload))
    /\ wire' = [NoWire EXCEPT
                  !.lpfp = copy,
                  !.payload = payload,
                  !.framed = TRUE,
                  !.complete = (written = Len(send_frame(payload))),
                  !.pending = SubSeq(send_frame(payload), 1, written),
                  !.closed = (written < Len(send_frame(payload))),
                  !.at = "header"]
    /\ UNCHANGED <<frames, dev_session, lock_owner, lock_pc, game_dirs,
                   bundles>>
    /\ UNCHANGED review_vars
    /\ UNCHANGED <<games_metadata, rooms, room_id_counter, online_players,
                   player_name, lobby_pc, developer_pc, procs>>

\* A peer that does not use send_frame writes a length prefix above the
\* limit and one more byte.
SendLong(copy, header) ==
    /\ wire.at = "idle"
    /\ wire' = [NoWire EXCEPT
                  !.lpfp = copy,
                  !.pending = header \o <<0>>,
                  !.at = "header"]
    /\ UNCHANGED <<frames, dev_session, lock_owner, lock_pc, game_dirs,
                   bundles>>
    /\ UNCHANGED review_vars
    /\ UNCHANGED <<games_metadata, rooms, room_id_counter, online_players,
                   player_name, lobby_pc, developer_pc, procs>>

\* recv_frame reads the header.  tetris/lpfp.py loops on
\* conn.recv(4 - len(header)) until it holds four bytes; bomb/lpfp.py calls
\* sock.recv(4) once and returns None when it got fewer than four.
RecvHeader(k) ==
    /\ wire.at = "header"
    /\ k \in recv_sizes(4 - Len(wire.header))
    /\ LET header == wire.header \o SubSeq(wire.pending, 1, k)
           after == recv_frame_after_header(wire.lpfp, header)
       IN  wire' =
             IF Len(header) = 4
             THEN [wire EXCEPT
                     !.pending = Rest(@, k), !.header = header,
                     !.length = from_bytes(header),
                     !.at = after.at, !.returned = after.returned]
             ELSE IF wire.lpfp = "bomb"
             THEN [wire EXCEPT
                     !.pending = Rest(@, k), !.header = header,
                     !.at = "done", !.returned = "None"]
             ELSE [wire EXCEPT !.pending = Rest(@, k), !.header = header]
    /\ UNCHANGED <<frames, dev_session, lock_owner, lock_pc, game_dirs,
                   bundles>>
    /\ UNCHANGED review_vars
    /\ UNCHANGED <<games_metadata, rooms, room_id_counter, online_players,
                   player_name, lobby_pc, developer_pc, procs>>

\* recv_frame reads payload bytes: conn.recv(length - len(data)).
RecvData(k) ==
    /\ wire.at = "data"
    /\ k \in recv_sizes(wire.length - Len(wire.data))
    /\ LET data == wire.data \o SubSeq(wire.pending, 1, k)
       IN  wire' = [wire EXCEPT
                      !.pending = Rest(@, k), !.data = data,
                      !.at = IF Len(data) < wire.length
                             THEN "data" ELSE "done",
                      !.returned = IF Len(data) < wire.length
                                   THEN "nothing" ELSE "data"]
    /\ UNCHANGED <<frames, dev_session, lock_owner, lock_pc, game_dirs,
                   bundles>>
    /\ UNCHANGED review_vars
    /\ UNCHANGED <<games_metadata, rooms, room_id_counter, online_players,
                   player_name, lobby_pc, developer_pc, procs>>

\* recv returns b'' at the end of the stream: recv_frame returns None.
RecvEnd ==
    /\ wire.at \in {"header", "data"}
    /\ wire.pending = <<>>
    /\ wire.closed
    /\ wire' = [wire EXCEPT !.at = "done", !.returned = "None"]
    /\ UNCHANGED <<frames, dev_session, lock_owner, lock_pc, game_dirs,
                   bundles>>
    /\ UNCHANGED review_vars
    /\ UNCHANGED <<games_metadata, rooms, room_id_counter, online_players,
                   player_name, lobby_pc, developer_pc, procs>>

\* ---------------------------------------------------------- specifications
\* Spec: the room registry.  One developer publishes a game once; each
\* connection logs in as its own player; rooms are created, joined, left,
\* started, reset and queried, and players send player_ready and
\* cancel_ready_check; subprocesses exit and their monitors run.
SessionOf == [c \in LobbyConns |->
                CASE c = "c1" -> "p1" [] c = "c2" -> "p2" [] OTHER -> "p3"]
RoomsUploads ==
    {data \in UploadData :
       /\ data.version = "1.0.0"
       /\ data.server_command => data.max_players = 2
       /\ data.start_command = GoodStartCommand}

Next ==
    \/ \E data \in RoomsUploads : UploadGame("dev1", data)
    \/ \E c \in LobbyConns : Connect(c)
    \/ \E c \in LobbyConns : Login(c, SessionOf[c], TRUE)
    \/ \E c \in LobbyConns, data \in CreateRoomData : CreateRoom(c, data)
    \/ \E c \in LobbyConns : CreateRoomInsert(c)
    \/ \E c \in LobbyConns, data \in JoinRoomData : JoinRoom(c, data)
    \/ \E c \in LobbyConns, data \in RoomData : LeaveRoom(c, data)
    \/ \E c \in LobbyConns, data \in RoomData, alive \in BOOLEAN,
          port \in PortChoices : StartGame(c, data, alive, port)
    \/ \E c \in LobbyConns, data \in RoomData : GetRoomStatus(c, data)
    \/ \E c \in LobbyConns, data \in RoomData : ResetRoom(c, data)
    \/ \E c \in LobbyConns, data \in RoomData, all_ready \in BOOLEAN,
          alive \in BOOLEAN, port \in PortChoices :
            PlayerReady(c, data, all_ready, alive, port)
    \/ \E c \in LobbyConns, data \in RoomData : CancelReadyCheck(c, data)
    \/ \E pid \in Pids : ProcExit(pid)
    \/ \E pid \in Pids : Monitor(pid)

Spec == Init /\ [][Next]_vars

\* SpecMonitor: Spec with the monitor threads scheduled fairly.  A monitor
\* thread that has returned from proc.wait() only needs rooms_lock, which
\* every holder releases, so it eventually runs its block.
SpecMonitor == Spec /\ \A pid \in Pids : WF_vars(Monitor(pid))

\* SpecReviews: the review store.  One developer publishes and removes a
\* pure-client game; two players download it, read its reviews and submit
\* reviews.
ReviewConns == {"c1", "c2"}
ReviewUploads ==
    {data \in UploadData : data.version = "1.0.0" /\ data.max_players = 2
                           /\ ~data.server_command
                           /\ data.start_command = GoodStartCommand}

NextReviews ==
    \/ \E data \in ReviewUploads : UploadGame("dev1", data)
    \/ \E data \in RemoveData : RemoveGame("dev1", data)
    \/ CascadeRooms("dev1")
    \/ \E c \in ReviewConns : Connect(c)
    \/ \E c \in ReviewConns : Login(c, SessionOf[c], TRUE)
    \/ \E c \in ReviewConns, data \in DownloadData : DownloadGame(c, data)
    \/ \E c \in ReviewConns, data \in GetReviewsData : GetReviews(c, data)
    \/ \E c \in ReviewConns, data \in SubmitReviewData :
          SubmitReview(c, data)
    \/ \E c \in ReviewConns : SubmitReviewDownloaded(c)
    \/ \E c \in ReviewConns : SubmitReviewWrite(c)
    \/ \E c \in ReviewConns : SubmitReviewAggregate(c)

SpecReviews == Init /\ [][NextReviews]_vars

\* SpecDownloads: SpecReviews with the developer also updating the game.
NextDownloads ==
    \/ NextReviews
    \/ \E data \in UpdateData : UpdateGame("dev1", data)

SpecDownloads == Init /\ [][NextDownloads]_vars

\* SpecUploads: the catalog.  Two developers upload the same name with every
\* kind of config, and update and remove it, while one player creates rooms
\* of it.
NextUploads ==
    \/ \E d \in Developers, data \in UploadData : UploadGame(d, data)
    \/ \E d \in Developers, data \in UpdateData : UpdateGame(d, data)
    \/ \E d \in Developers, data \in RemoveData : RemoveGame(d, data)
    \/ \E d \in Developers : CascadeRooms(d)
    \/ Connect("c1")
    \/ Login("c1", SessionOf["c1"], TRUE)
    \/ \E data \in CreateRoomData : CreateRoom("c1", data)
    \/ CreateRoomInsert("c1")

SpecUploads == Init /\ [][NextUploads]_vars

\* SpecVersions: the version strings of the catalog.  One developer uploads,
\* updates and removes the game with every version string, while one player
\* creates rooms of it.
VersionInputs == Versions \cup OtherVersions \cup {None}
VersionUploads ==
    [game_name : Games, version : VersionInputs, max_players : {2},
     server_command : {FALSE}, start_command : {GoodStartCommand}]
VersionUpdates == [game_name : Games, version : VersionInputs]

NextVersions ==
    \/ \E data \in VersionUploads : UploadGame("dev1", data)
    \/ \E data \in VersionUpdates : UpdateGame("dev1", data)
    \/ \E data \in RemoveData : RemoveGame("dev1", data)
    \/ CascadeRooms("dev1")
    \/ Connect("c1")
    \/ Login("c1", SessionOf["c1"], TRUE)
    \/ \E data \in CreateRoomData : CreateRoom("c1", data)
    \/ CreateRoomInsert("c1")

SpecVersions == Init /\ [][NextVersions]_vars

\* SpecPresence: logins and session teardown.  A two-player game is
\* published; any connection may log in as any player, any number of times;
\* players create, join and leave rooms; connections drop and are cleaned up.
PresenceUploads ==
    {data \in UploadData : data.version = "1.0.0" /\ data.max_players = 2
                           /\ ~data.server_command
                           /\ data.start_command = GoodStartCommand}
PresenceCreates == {data \in CreateRoomData : data.version = "1.0.0"}
PresenceJoins == {data \in JoinRoomData : data.version = "1.0.0"}

NextPresence ==
    \/ \E data \in PresenceUploads : UploadGame("dev1", data)
    \/ \E c \in LobbyConns : Connect(c)
    \/ \E c \in LobbyConns, username \in Players, db_ok \in BOOLEAN :
          Login(c, username, db_ok)
    \/ \E c \in LobbyConns, data \in PresenceCreates : CreateRoom(c, data)
    \/ \E c \in LobbyConns : CreateRoomInsert(c)
    \/ \E c \in LobbyConns, data \in PresenceJoins : JoinRoom(c, data)
    \/ \E c \in LobbyConns, data \in RoomData : LeaveRoom(c, data)
    \/ \E c \in LobbyConns : Disconnect(c)
    \/ \E c \in LobbyConns : CleanupScan(c)
    \/ \E c \in LobbyConns : CleanupLeave(c)
    \/ \E c \in LobbyConns : CleanupPresence(c)

SpecPresence == Init /\ [][NextPresence]_vars

\* SpecCascade: the catalog against the room registry.  Two developers
\* upload the game, the first of them also updates and removes it, while
\* two players create, join, leave, start and reset rooms.
CascadeConns == {"c1", "c2"}
CascadeUploads ==
    {data \in UploadData :
       data.max_players = 2 /\ data.start_command = GoodStartCommand}

NextCascade ==
    \/ \E d \in Developers, data \in CascadeUploads : UploadGame(d, data)
    \/ \E data \in UpdateData : UpdateGame("dev1", data)
    \/ \E data \in RemoveData : RemoveGame("dev1", data)
    \/ CascadeRooms("dev1")
    \/ \E c \in CascadeConns : Connect(c)
    \/ \E c \in CascadeConns : Login(c, SessionOf[c], TRUE)
    \/ \E c \in CascadeConns, data \in CreateRoomData : CreateRoom(c, data)
    \/ \E c \in CascadeConns : CreateRoomInsert(c)
    \/ \E c \in CascadeConns, data \in JoinRoomData : JoinRoom(c, data)
    \/ \E c \in CascadeConns, data \in RoomData : LeaveRoom(c, data)
    \/ \E c \in CascadeConns, data \in RoomData, alive \in BOOLEAN,
          port \in PortChoices : StartGame(c, data, alive, port)
    \/ \E c \in CascadeConns, data \in RoomData : ResetRoom(c, data)
    \/ \E pid \in Pids : ProcExit(pid)
    \/ \E pid \in Pids : Monitor(pid)

SpecCascade == Init /\ [][NextCascade]_vars

\* SpecSessions: one connection on each port, from accept to close: the
\* handshake, the request loop with every kind of frame, and the teardown.
\* create_room requests of the lobby connection are served by the actions
\* of the room registry.
SessionCreates == {data \in CreateRoomData : data.version = "1.0.0"}

NextSessions ==
    \/ LobbyAccept("c1")
    \/ \E frame \in HandshakeFrames : LobbyHandshake("c1", frame)
    \/ \E frame \in LobbyRequestFrames : LobbyRecv("c1", frame)
    \/ \E db_ok \in BOOLEAN : LobbyHandle("c1", db_ok)
    \/ \E data \in SessionCreates : CreateRoom("c1", data)
    \/ CreateRoomInsert("c1")
    \/ Disconnect("c1")
    \/ CleanupScan("c1")
    \/ CleanupLeave("c1")
    \/ CleanupPresence("c1")
    \/ \E k \in DevConns : DevAccept(k)
    \/ \E k \in DevConns, frame \in HandshakeFrames : DevHandshake(k, frame)
    \/ \E k \in DevConns, frame \in DeveloperRequestFrames :
          DevRecv(k, frame)
    \/ \E k \in DevConns, db_ok \in BOOLEAN : DevHandle(k, db_ok)
    \/ \E k \in DevConns : DevEOF(k)

SpecSessions == Init /\ [][NextSessions]_vars

\* SpecLocks: two threads running any two handlers side by side, seen
\* through their lock events only.
NextLocks ==
    \/ \E t \in LockThreads, handler \in LockHandlers : LockCall(t, handler)
    \/ \E t \in LockThreads : LockAcquire(t)
    \/ \E t \in LockThreads : LockRelease(t)

SpecLocks == Init /\ [][NextLocks]_vars

\* SpecLocksFair: SpecLocks with the threads scheduled.  A thread that is
\* about to leave a `with` block does so; a thread that waits for a lock
\* gets it if the lock is free again and again.
SpecLocksFair ==
    /\ SpecLocks
    /\ \A t \in LockThreads :
          SF_vars(LockAcquire(t)) /\ WF_vars(LockRelease(t))

\* SpecBundles: a developer uploads, updates and removes the game with its
\* files while a player downloads it.
NextBundles ==
    \/ \E data \in BundleUploads, archive \in SentArchives, now \in Times :
          UploadGameFiles("dev1", data, archive, now)
    \/ \E data \in UpdateData, archive \in SentArchives, now \in Times :
          UpdateGameFiles("dev1", data, archive, now)
    \/ \E data \in RemoveData : RemoveGameFiles("dev1", data)
    \/ CascadeRooms("dev1")
    \/ Connect("c1")
    \/ Login("c1", SessionOf["c1"], TRUE)
    \/ \E data \in DownloadData : DownloadGameFiles("c1", data)

SpecBundles == Init /\ [][NextBundles]_vars

\* SpecTwoGames: a catalog of two games.  One developer uploads, updates and
\* removes tic and tac while two players create, join and start rooms of
\* either; no player leaves, so rooms go away by the cascades only.
TwoGames == {"tic", "tac"}
TwoGamesUploads ==
    [game_name : TwoGames, version : {"1.0.0"}, max_players : {2},
     server_command : {TRUE}, start_command : {GoodStartCommand}]
TwoGamesUpdates == [game_name : TwoGames, version : {"1.0.1"}]
TwoGamesRemoves == [game_name : TwoGames]
TwoGamesCreates == [game_name : TwoGames, version : {None}]
TwoGamesJoins == [room_id : RoomIds, version : {None}]

NextTwoGames ==
    \/ \E data \in TwoGamesUploads : UploadGame("dev1", data)
    \/ \E data \in TwoGamesUpdates : UpdateGame("dev1", data)
    \/ \E data \in TwoGamesRemoves : RemoveGame("dev1", data)
    \/ CascadeRooms("dev1")
    \/ \E c \in CascadeConns : Connect(c)
    \/ \E c \in CascadeConns : Login(c, SessionOf[c], TRUE)
    \/ \E c \in CascadeConns, data \in TwoGamesCreates : CreateRoom(c, data)
    \/ \E c \in CascadeConns : CreateRoomInsert(c)
    \/ \E c \in CascadeConns, data \in TwoGamesJoins : JoinRoom(c, data)
    \/ \E c \in CascadeConns, data \in RoomData, port \in PortChoices :
          StartGame(c, data, TRUE, port)
    \/ \E pid \in Pids : ProcExit(pid)
    \/ \E pid \in Pids : Monitor(pid)

SpecTwoGames == Init /\ [][NextTwoGames]_vars

\* SpecFrames: one frame on one stream socket, written by send_frame (or a
\* long length prefix written by a peer of its own making) and read by
\* recv_frame of either copy of lpfp.py, the socket handing the bytes over
\* in pieces of any size.
NextFrames ==
    \/ \E copy \in LpfpCopies, payload \in Payloads,
          written \in 0..(4 + MaxPayload) :
          SendFrame(copy, payload, written)
    \/ \E copy \in LpfpCopies, header \in LongHeaders : SendLong(copy, header)
    \/ \E k \in 1..4 : RecvHeader(k)
    \/ \E k \in 1..MaxPayload : RecvData(k)
    \/ RecvEnd

SpecFrames == Init /\ [][NextFrames]_vars

\* SpecRestart: a room that is started more than once.  One developer
\* publishes and removes one game with a game server; two players create,
\* join, leave, start and reset rooms; up to MaxRestarts subprocesses are
\* spawned, exit and have their monitors run.
RestartUploads ==
    [game_name : {"tic"}, version : {"1.0.0"}, max_players : {2},
     server_command : {TRUE}, start_command : {GoodStartCommand}]
RestartCreates == [game_name : {"tic"}, version : {None}]
RestartPids == 1..MaxRestarts

NextRestart ==
    \/ \E data \in RestartUploads : UploadGame("dev1", data)
    \/ \E data \in RemoveData : RemoveGame("dev1", data)
    \/ CascadeRooms("dev1")
    \/ \E c \in CascadeConns : Connect(c)
    \/ \E c \in CascadeConns : Login(c, SessionOf[c], TRUE)
    \/ \E c \in CascadeConns, data \in RestartCreates : CreateRoom(c, data)
    \/ \E c \in CascadeConns : CreateRoomInsert(c)
    \/ \E c \in CascadeConns, data \in TwoGamesJoins : JoinRoom(c, data)
    \/ \E c \in CascadeConns, data \in RoomData : LeaveRoom(c, data)
    \/ \E c \in CascadeConns, data \in RoomData, port \in PortChoices :
          StartGameAgain(c, data, TRUE, port)
    \/ \E c \in CascadeConns, data \in RoomData : ResetRoom(c, data)
    \/ \E pid \in RestartPids : ProcExit(pid)
    \/ \E pid \in RestartPids : Monitor(pid)

SpecRestart == Init /\ [][NextRestart]_vars

\* ------------------------------------------------------------------ claims
\* No handle_update_game / handle_remove_game call is between its two
\* critical sections.
NoCatalogCallInProgress == \A d \in Developers : developer_pc[d].at = "idle"

\* A room's game is in the catalog at the version the room was created with.
RoomMatchesCatalog(n) ==
    /\ rooms[n].game_name \in DOMAIN games_metadata
    /\ games_metadata[rooms[n].game_name].version = rooms[n].version

\* C1: whenever no update_game / remove_game call is in progress, every room
\* references a game that is in the catalog and whose current version is the
\* room's version; so after a successful update or remove of g no room of g
\* is left, whatever create_room calls run concurrently.
C1_RoomsMatchCatalog ==
    NoCatalogCallInProgress => \A n \in DOMAIN rooms : RoomMatchesCatalog(n)

\* No player appears twice in a member list.
NoDuplicates(s) == \A i, j \in 1..Len(s) : s[i] = s[j] => i = j

\* C2: for every room, the host is a member, the member list has no
\* duplicates, and 1 <= |members| <= max_players.
C2_RoomMembership ==
    \A n \in DOMAIN rooms :
      /\ InSeq(rooms[n].host, rooms[n].players)
      /\ NoDuplicates(rooms[n].players)
      /\ 1 <= Len(rooms[n].players)
      /\ Len(rooms[n].players) <= rooms[n].max_players

\* The room has a recorded game server: pid and port are set.
HasGameServer(room) ==
    TruthyInt(room.game_server_pid) /\ TruthyInt(room.game_server_port)

\* The catalog holds no server_command for the room's game (a game that is
\* not in the catalog has no config at all).
NoServerCommand(room) ==
    \/ room.game_name \notin DOMAIN games_metadata
    \/ ~games_metadata[room.game_name].server_command

\* C3 as stated: in every reachable state, every room whose state is playing
\* has a recorded game server (pid and port set) or belongs to a game whose
\* config has no server_command.
C3_PlayingHasServer ==
    \A n \in DOMAIN rooms :
      rooms[n].status = "playing" =>
        HasGameServer(rooms[n]) \/ NoServerCommand(rooms[n])

\* No handle_remove_game call is between deleting the catalog entry and
\* dropping the game's rooms.
NoRemoveInProgress ==
    \A d \in Developers : developer_pc[d].at # "remove_cascade"

\* C3 as amended: in every reachable state in which no remove_game call is
\* in progress, every room whose state is playing has a recorded game server
\* (pid and port set) or belongs to a game whose config has no
\* server_command.
C3_PlayingHasServerWhenQuiescent ==
    NoRemoveInProgress => C3_PlayingHasServer

\* C3 witness: with no remove in progress, a room of a game that has a
\* server_command is playing on the game server start_game spawned.
C3_Witness ==
    /\ NoRemoveInProgress
    /\ \E n \in DOMAIN rooms :
         /\ rooms[n].status = "playing"
         /\ HasGameServer(rooms[n])
         /\ ~NoServerCommand(rooms[n])
         /\ rooms[n].game_server_pid \in DOMAIN procs

\* A waiting room with exactly one free slot.
OneFreeSlot(n) ==
    /\ n \in DOMAIN rooms
    /\ rooms[n].status = "waiting"
    /\ Len(rooms[n].players) = rooms[n].max_players - 1

\* A join_room request for room n that carries the room's version.
MatchingJoin(n) == [room_id |-> n, version |-> rooms[n].version]

\* C4: two different players join a waiting room that has exactly one free
\* slot, both with the room's version.  Whichever call takes rooms_lock first
\* succeeds; after it, the other is rejected with "Room is full" and changes
\* nothing; a room within its capacity never grows beyond max_players.
C4_ConcurrentJoin ==
    /\ [](\A n \in DOMAIN rooms, p \in Players :
            OneFreeSlot(n) /\ ~InSeq(p, rooms[n].players) =>
              handle_join_room_response(MatchingJoin(n), p) = "Joined room")
    /\ [][\A n \in DOMAIN rooms :
            /\ OneFreeSlot(n)
            /\ n \in DOMAIN rooms'
            /\ Len(rooms'[n].players) = Len(rooms[n].players) + 1
            => \A q \in Players :
                 ~InSeq(q, rooms'[n].players) =>
                   /\ handle_join_room_response(MatchingJoin(n), q)'
                        = "Room is full"
                   /\ handle_join_room_rooms(MatchingJoin(n), q)' = rooms'
         ]_vars
    /\ [][\A n \in (DOMAIN rooms) \cap (DOMAIN rooms') :
            Len(rooms[n].players) <= rooms[n].max_players =>
              Len(rooms'[n].players) <= rooms'[n].max_players]_vars

\* C4 witness: a two-player room was filled by a join, and a third player is
\* logged in and not a member (its join is the one that must be rejected).
C4_Witness ==
    \E n \in DOMAIN rooms, c \in LobbyConns :
      /\ rooms[n].status = "waiting"
      /\ rooms[n].max_players = 2
      /\ Len(rooms[n].players) = 2
      /\ LoggedIn(c)
      /\ ~InSeq(player_name[c], rooms[n].players)

\* C5: while a player name has a presence entry, a login for that name with
\* valid credentials, on any connection, is rejected as already online and
\* leaves the presence table unchanged; the entry of a name is never replaced
\* by another one (at most one entry per name).
C5_SingleLogin ==
    /\ [](\A username \in DOMAIN online_players, c \in LobbyConns :
            /\ login_response(username, TRUE) = "Already online"
            /\ login_online_players(username, c, TRUE) = online_players)
    /\ [][\A username \in (DOMAIN online_players) \cap (DOMAIN online_players') :
            online_players'[username] = online_players[username]]_vars

\* C5 witness: p1 is online on c1 while c2 and c3 are open, c2 still not
\* logged in and c3 logged in as someone else: a login as p1 can arrive on
\* either.
C5_Witness ==
    /\ "p1" \in DOMAIN online_players
    /\ online_players["p1"] = "c1"
    /\ lobby_pc["c2"].at = "idle" /\ player_name["c2"] = None
    /\ lobby_pc["c3"].at = "idle" /\ player_name["c3"] = "p2"

\* C6: once the teardown of a connection has completed, no presence entry
\* created by a login on that connection remains.
C6_TeardownClearsPresence ==
    \A c \in LobbyConns :
      lobby_pc[c].at = "closed" =>
        \A username \in DOMAIN online_players : online_players[username] # c

\* C7: when the teardown of a logged-in player's connection completes, that
\* player is a member of no room (so every room the player hosted is gone).
C7_TeardownLeavesRooms ==
    [][\A c \in LobbyConns :
         lobby_pc[c].at = "cleanup_presence" /\ lobby_pc'[c].at = "closed" =>
           \A n \in DOMAIN rooms' : ~InSeq(player_name[c], rooms'[n].players)
      ]_vars

\* The reply of get_room_status for a room id that names no room.
RoomNotFound ==
    [status |-> "error", message |-> "Room not found or has been closed"]

\* A room number that generate_room_id has already handed out.
Issued(n) == n < room_id_counter

\* C8: leave_room by the host destroys the room, whatever its state and its
\* other members; a room keeps its host for as long as it exists; the id of
\* a destroyed room never names a room again, so get_room_status on it, by
\* anyone, answers not found.
C8_HostLeaveDisbands ==
    /\ [](\A n \in DOMAIN rooms :
            handle_leave_room_rooms([room_id |-> n], rooms[n].host)
              = DictDel(rooms, n))
    /\ [][\A n \in (DOMAIN rooms) \cap (DOMAIN rooms') :
            rooms'[n].host = rooms[n].host]_vars
    /\ [][\A n \in RoomIds :
            Issued(n) /\ n \notin DOMAIN rooms => n \notin DOMAIN rooms']_vars
    /\ [](\A n \in RoomIds, p \in Players :
            Issued(n) /\ n \notin DOMAIN rooms =>
              handle_get_room_status_response([room_id |-> n], p)
                = RoomNotFound)

\* C8 witness: a room that had been started (so it had other members, and a
\* game server) has been disbanded, and a later room exists.
C8_Witness ==
    /\ \E pid \in DOMAIN procs :
         Issued(procs[pid].rid) /\ procs[pid].rid \notin DOMAIN rooms
    /\ DOMAIN rooms # {}

\* C9: create_room goes on to create a room only if the named game exists,
\* is active, and the version carried by the request equals the game's
\* current catalog version (a request that carries no version included).
C9_CreateRequiresVersion ==
    \A data \in CreateRoomData :
      handle_create_room_check(data) = "continue" =>
        /\ data.game_name \in DOMAIN games_metadata
        /\ games_metadata[data.game_name].status = "active"
        /\ data.version = games_metadata[data.game_name].version

\* C10: join_room succeeds only if the room exists, is waiting, has fewer
\* than max_players members, does not hold the player yet, and the version
\* carried by the request equals the room's version; on success the player
\* is appended to the member list, and a rejected call changes no room.
C10_JoinPreconditions ==
    \A data \in JoinRoomData, p \in Players :
      LET response == handle_join_room_response(data, p)
          after == handle_join_room_rooms(data, p)
      IN  /\ response = "Joined room" =>
               /\ data.room_id \in DOMAIN rooms
               /\ rooms[data.room_id].status = "waiting"
               /\ Len(rooms[data.room_id].players)
                    < rooms[data.room_id].max_players
               /\ ~InSeq(p, rooms[data.room_id].players)
               /\ data.version = rooms[data.room_id].version
               /\ after = [rooms EXCEPT
                             ![data.room_id].players = Append(@, p)]
          /\ response # "Joined room" => after = rooms

\* The success replies and the guard replies of start_game.
StartGameSuccess ==
    {"Game started (no server needed)", "Game server started! Connect now."}
StartGameGuardErrors ==
    {"Only host can start game", "Game already started",
     "Need at least 2 players"}

\* C11: start_game moves a room to playing only if the caller is the host,
\* the room has at least 2 members and the room is waiting; when one of the
\* three fails on an existing room the reply is the guard's error, every room
\* (state, members, game-server record) is as before and no subprocess is
\* spawned.
C11_StartGameGuards ==
    \A data \in RoomData, p \in Players, alive \in BOOLEAN,
       port \in PortChoices :
      LET response == handle_start_game_response(data, p, alive)
          after == handle_start_game_rooms(data, p, alive, next_pid, port)
      IN  /\ (data.room_id \in DOMAIN rooms
               /\ after[data.room_id].status = "playing"
               /\ rooms[data.room_id].status # "playing") =>
                 /\ response \in StartGameSuccess
                 /\ p = rooms[data.room_id].host
                 /\ Len(rooms[data.room_id].players) >= 2
                 /\ rooms[data.room_id].status = "waiting"
          /\ (data.room_id \in DOMAIN rooms
               /\ (\/ p # rooms[data.room_id].host
                   \/ Len(rooms[data.room_id].players) < 2
                   \/ rooms[data.room_id].status # "waiting")) =>
                 /\ response \in StartGameGuardErrors
                 /\ after = rooms
                 /\ ~start_game_spawns(data, p)

\* C11 witness: a room of two is playing after its host started it, while
\* the host and the other member are logged in (their start_game requests
\* are the ones refused), and a second room holds its host alone.
C11_Witness ==
    \E n, m \in DOMAIN rooms, c, d \in LobbyConns :
      /\ rooms[n].status = "playing" /\ Len(rooms[n].players) = 2
      /\ LoggedIn(c) /\ player_name[c] = rooms[n].host
      /\ LoggedIn(d) /\ player_name[d] = rooms[n].players[2]
      /\ rooms[m].status = "waiting" /\ Len(rooms[m].players) = 1

\* C12: a room created for a game with max_players = 1 never reaches state
\* playing (it never has a second member, and start_game needs two).
C12_SoloRoomNeverPlays ==
    \A n \in DOMAIN rooms :
      rooms[n].max_players = 1 =>
        rooms[n].status # "playing" /\ Len(rooms[n].players) = 1

\* C12 witness: a room with max_players = 1 exists, its host is logged in,
\* and so is another player (join_room and start_game can be sent on it).
C12_Witness ==
    \E n \in DOMAIN rooms, c, d \in LobbyConns :
      /\ rooms[n].max_players = 1
      /\ LoggedIn(c) /\ player_name[c] = rooms[n].host
      /\ LoggedIn(d) /\ player_name[d] # rooms[n].host

\* The monitor thread of pid has run its rooms_lock block.
MonitorDone(pid) == pid \in DOMAIN procs /\ procs[pid].monitor = "done"

\* The room has no game-server record left.
ServerCleared(room) ==
    /\ room.status = "waiting"
    /\ room.game_server_pid = NoneInt
    /\ room.game_server_port = NoneInt
    /\ room.game_server_process = NoneInt

\* C13: when a supervised subprocess has exited, its monitor thread
\* eventually runs (under fairness of the monitor); the monitor's step sets
\* the room the subprocess was spawned for, if it still exists, to waiting
\* with pid, port and process handle cleared, and changes no room when that
\* room is gone; the exit itself changes no room.
C13_MonitorResetsRoom ==
    /\ \A pid \in Pids : Exited(pid) ~> MonitorDone(pid)
    /\ [][\A pid \in DOMAIN procs :
            procs[pid].monitor = "waiting" /\ MonitorDone(pid)' =>
              IF procs[pid].rid \in DOMAIN rooms
              THEN /\ DOMAIN rooms' = DOMAIN rooms
                   /\ ServerCleared(rooms'[procs[pid].rid])
                   /\ \A n \in (DOMAIN rooms) \ {procs[pid].rid} :
                        rooms'[n] = rooms[n]
              ELSE rooms' = rooms]_vars
    /\ [][\A pid \in DOMAIN procs :
            procs[pid].alive /\ ~procs'[pid].alive => rooms' = rooms]_vars

\* C13 witness: a subprocess has exited, its monitor has not run yet, and
\* the room it was spawned for still exists and is playing on it.
C13_Witness ==
    \E pid \in DOMAIN procs :
      /\ Exited(pid) /\ procs[pid].monitor = "waiting"
      /\ procs[pid].rid \in DOMAIN rooms
      /\ rooms[procs[pid].rid].status = "playing"
      /\ rooms[procs[pid].rid].game_server_pid = pid

\* C13 witness for the other case: the subprocess has exited, its monitor
\* has not run yet, and the room is gone.
C13_WitnessRoomGone ==
    \E pid \in DOMAIN procs :
      /\ Exited(pid) /\ procs[pid].monitor = "waiting"
      /\ procs[pid].rid \notin DOMAIN rooms

\* A game-server subprocess was spawned for room n, and every subprocess
\* spawned for it has exited.
RoomServerExited(n) ==
    /\ \E pid \in DOMAIN procs : procs[pid].rid = n
    /\ \A pid \in DOMAIN procs : procs[pid].rid = n => Exited(pid)

\* C14: get_room_status by a member of a room whose game-server subprocess
\* has exited reports state waiting and no server port, whether
\* or not the monitor thread has run; get_room_status leaves the members and
\* the host of every room as they are.
C14_StatusAfterExit ==
    \A data \in RoomData, p \in Players :
      LET after == handle_get_room_status_rooms(data, p)
          response == handle_get_room_status_response(data, p)
      IN  /\ DOMAIN after = DOMAIN rooms
          /\ \A n \in DOMAIN rooms :
                /\ after[n].players = rooms[n].players
                /\ after[n].host = rooms[n].host
          /\ (/\ data.room_id \in DOMAIN rooms
              /\ InSeq(p, rooms[data.room_id].players)
              /\ RoomServerExited(data.room_id)) =>
                /\ response.status = "success"
                /\ response.room_status = "waiting"
                /\ response.server_port = NoneInt

\* C14 witness: a room is playing on a subprocess that has exited, the
\* monitor thread has not run yet, and a member other than the host is
\* logged in.
C14_Witness ==
    \E n \in DOMAIN rooms, c \in LobbyConns :
      /\ rooms[n].status = "playing"
      /\ RoomServerExited(n)
      /\ TruthyInt(rooms[n].game_server_process)
      /\ procs[rooms[n].game_server_process].monitor = "waiting"
      /\ LoggedIn(c)
      /\ InSeq(player_name[c], rooms[n].players)
      /\ player_name[c] # rooms[n].host

\* No handle_submit_review call is between its critical sections.
NoSubmitReviewInProgress ==
    \A c \in LobbyConns :
      lobby_pc[c].at \notin
        {"review_downloaded", "review_write", "review_aggregate"}

\* C15: whenever no submit_review is in progress, every game in the catalog
\* has review_count equal to the number of stored reviews of its name and
\* average_rating equal to their mean, rounded to 2 decimals (0 when there
\* is none).
C15_AggregatesMatchReviews ==
    NoSubmitReviewInProgress =>
      \A g \in DOMAIN games_metadata :
        /\ games_metadata[g].review_count = Len(stored_reviews(g))
        /\ games_metadata[g].average_rating
             = average_rating(stored_reviews(g))

\* The list holds at most one review per player.
OneReviewPerPlayer(list) ==
    \A i, j \in 1..Len(list) : list[i].player = list[j].player => i = j

\* C16: the stored review list of a game holds at most one review per
\* player; a submission by a player who has a review on the game replaces it
\* where it stands with the new rating and comment and leaves every other
\* review and the length of the list as they are; a submission by a player
\* without one is appended.
C16_OneReviewPerPlayer ==
    /\ \A g \in DOMAIN reviews : OneReviewPerPlayer(reviews[g])
    /\ \A g \in Games, p \in Players, rating \in RatingInputs,
          comment \in Comments :
          LET list == stored_reviews(g)
              after == handle_submit_review_list(g, p, rating, comment)
              new_review ==
                [player |-> p, rating |-> rating, comment |-> comment]
          IN  IF \E i \in 1..Len(list) : list[i].player = p
              THEN /\ Len(after) = Len(list)
                   /\ \A i \in 1..Len(list) :
                        after[i] = IF list[i].player = p
                                   THEN new_review ELSE list[i]
              ELSE after = Append(list, new_review)

\* C16 witness: a player whose review stands first of two has submitted
\* again with another rating; the reviews_lock block has replaced the review
\* where it stood, and the list still has two entries.
C16_Witness ==
    \E c \in LobbyConns, g \in DOMAIN reviews :
      /\ lobby_pc[c].at = "review_aggregate"
      /\ review_locals[c].game_name = g
      /\ g \in DOMAIN games_metadata
      /\ games_metadata[g].review_count = 2
      /\ Len(reviews[g]) = 2
      /\ reviews[g][1].player = player_name[c]
      /\ reviews[g][1].rating = review_locals[c].rating
      /\ games_metadata[g].average_rating # average_rating(reviews[g])

\* The replies of submit_review's download gate: the player has no download
\* record at all, or has one that does not list the game.
NotDownloadedErrors ==
    {"Player not found", "You must download the game before reviewing"}

\* The player's download record lists the game.
HasDownloaded(p, g) == InSeq(g, downloaded_games(p))

\* C17: a submit_review call gets past the download gate only if the
\* player's record lists the game, and a game enters a player's record only
\* in a step in which that player's download_game of it succeeds; when the
\* record does not list the game the gate answers a not-downloaded error,
\* and the failing call changes neither the reviews nor the catalog.
C17_ReviewNeedsDownload ==
    /\ [](\A c \in LobbyConns :
            lobby_pc[c].at \in {"review_write", "review_aggregate"} =>
              HasDownloaded(player_name[c], review_locals[c].game_name))
    /\ [][\A p \in Players, g \in Games :
            ~HasDownloaded(p, g) /\ HasDownloaded(p, g)' =>
              \E c \in LobbyConns :
                /\ LoggedIn(c) /\ player_name[c] = p
                /\ handle_download_game_response([game_name |-> g], p)
                     = "success"
                /\ players_json'
                     = handle_download_game_players([game_name |-> g], p)
         ]_vars
    /\ [](\A p \in Players, g \in Games :
            ~HasDownloaded(p, g) =>
              handle_submit_review_downloaded(g, p) \in NotDownloadedErrors)
    /\ [][\A c \in LobbyConns :
            /\ lobby_pc[c].at = "review_downloaded"
            /\ ~HasDownloaded(player_name[c], review_locals[c].game_name)
            /\ lobby_pc'[c] # lobby_pc[c]
            => /\ lobby_pc'[c].at = "idle"
               /\ reviews' = reviews
               /\ games_metadata' = games_metadata
         ]_vars

\* C17 witness: one player's submit_review stands at the download gate
\* without having downloaded the game, while another player, who has
\* downloaded it, is past the gate.
C17_Witness ==
    \E c, d \in LobbyConns :
      /\ lobby_pc[c].at = "review_downloaded"
      /\ ~HasDownloaded(player_name[c], review_locals[c].game_name)
      /\ lobby_pc[d].at = "review_write"

\* The integers 1, 2, 3, 4, 5, in tenths of a point.
IntegerRatings == {10, 20, 30, 40, 50}

\* C18: submit_review is rejected by its validation whenever the rating is
\* not one of the integers 1..5, and every stored review has a rating that
\* is one of them.
C18_RatingInRange ==
    /\ \A data \in SubmitReviewData :
          data.rating \notin IntegerRatings =>
            handle_submit_review_check(data) # "continue"
    /\ \A g \in DOMAIN reviews : \A i \in 1..Len(reviews[g]) :
          reviews[g][i].rating \in IntegerRatings

\* Developer d is not the owner of catalog entry g.
NotOwner(d, g) ==
    g \in DOMAIN games_metadata /\ games_metadata[g].developer # d

\* C19: update_game and remove_game on a game by a developer who is not its
\* owner answer "Permission denied" and leave the catalog as it is; only the
\* owner's call goes on to the room cascade, so no room changes either; the
\* developer of a catalog entry is the same for as long as the entry exists.
C19_OwnerOnly ==
    /\ [](\A d \in Developers, data \in UpdateData :
            NotOwner(d, data.game_name) =>
              /\ handle_update_game_check(data, d) = "Permission denied"
              /\ handle_update_game_games(data, d) = games_metadata)
    /\ [](\A d \in Developers, data \in RemoveData :
            NotOwner(d, data.game_name) =>
              /\ handle_remove_game_check(data, d) = "Permission denied"
              /\ handle_remove_game_games(data, d) = games_metadata)
    /\ [][\A d \in Developers :
            /\ developer_pc[d].at = "idle"
            /\ developer_pc'[d].at \in {"update_cascade", "remove_cascade"}
            => /\ ~NotOwner(d, developer_pc'[d].game_name)
               /\ developer_pc'[d].game_name \in DOMAIN games_metadata
         ]_vars
    /\ [][\A g \in (DOMAIN games_metadata) \cap (DOMAIN games_metadata') :
            games_metadata'[g].developer = games_metadata[g].developer]_vars

\* C19 witness: dev1 owns a game that has a room, and dev2, who does not
\* own it, is between requests.
C19_Witness ==
    \E g \in DOMAIN games_metadata, n \in DOMAIN rooms :
      /\ games_metadata[g].developer = "dev1"
      /\ rooms[n].game_name = g
      /\ developer_pc["dev2"].at = "idle"
      /\ developer_pc["dev1"].at = "idle"

\* The upload request is one the spec rejects: the name is taken, or
\* start_command is missing or blank, or lacks {host} or {port}.
BadUpload(data) ==
    \/ data.game_name \in DOMAIN games_metadata
    \/ strip(data.start_command) = <<>>
    \/ ~InSeq("{host}", data.start_command)
    \/ ~InSeq("{port}", data.start_command)

\* C20: an upload_game whose name is in the catalog, or whose start_command
\* is missing, blank or without {host} or {port}, is rejected and leaves the
\* catalog as it is; so of two uploads of one new name the second to take
\* games_lock is refused, and a name enters the catalog only by an upload
\* that makes its sender the developer of the entry.
C20_UploadRejections ==
    /\ [](\A d \in Developers, data \in UploadData :
            BadUpload(data) =>
              /\ handle_upload_game_response(data, d)
                   # "Game uploaded successfully"
              /\ handle_upload_game_games(data, d) = games_metadata)
    /\ [][\A g \in Games :
            g \notin DOMAIN games_metadata /\ g \in DOMAIN games_metadata' =>
              \E d \in Developers, data \in UploadData :
                /\ data.game_name = g
                /\ ~BadUpload(data)
                /\ games_metadata' = handle_upload_game_games(data, d)
                /\ games_metadata'[g].developer = d
                /\ \A e \in Developers :
                     (handle_upload_game_response(data, e))'
                       = "Game already exists. Use update instead."
         ]_vars

\* C20 witness: dev2's upload of the name has been accepted while dev1 is
\* between requests, and dev1's well-formed upload of the same name is the
\* one refused.
C20_Witness ==
    \E g \in DOMAIN games_metadata :
      /\ games_metadata[g].developer = "dev2"
      /\ developer_pc["dev1"].at = "idle"
      /\ \E data \in UploadData :
           /\ data.game_name = g
           /\ data.start_command = GoodStartCommand
           /\ handle_upload_game_response(data, "dev1")
                = "Game already exists. Use update instead."
           /\ handle_upload_game_games(data, "dev1") = games_metadata

\* The characters of a version string of the model.
version_chars(v) ==
    CASE v = "1.0.0" -> <<"1", ".", "0", ".", "0">>
      [] v = "1.0.1" -> <<"1", ".", "0", ".", "1">>
      [] v = "1.0" -> <<"1", ".", "0">>
      [] v = "1.a.0" -> <<"1", ".", "a", ".", "0">>
      [] v = "1.0.0.0" -> <<"1", ".", "0", ".", "0", ".", "0">>
      [] OTHER -> <<>>

\* The pieces of s between the separators, as str.split gives them.
RECURSIVE split(_, _)
split(s, sep) ==
    IF ~InSeq(sep, s) THEN <<s>>
    ELSE LET i == CHOOSE k \in 1..Len(s) :
                    s[k] = sep /\ \A j \in 1..(k - 1) : s[j] # sep
         IN  <<SubSeq(s, 1, i - 1)>> \o split(SubSeq(s, i + 1, Len(s)), sep)

Digits == {"0", "1", "2", "3", "4", "5", "6", "7", "8", "9"}

\* The string is three dot-separated non-negative integers.
IsVersion(v) ==
    LET parts == split(version_chars(v), ".")
    IN  /\ Len(parts) = 3
        /\ \A i \in 1..3 :
              parts[i] # <<>> /\ \A k \in 1..Len(parts[i]) : parts[i][k] \in Digits

\* C21: an upload_game or update_game whose version string is not three
\* dot-separated non-negative integers is rejected, and every version stored
\* in the catalog is three dot-separated non-negative integers.
C21_VersionFormat ==
    /\ \A data \in VersionUploads :
          data.version # None /\ ~IsVersion(data.version) =>
            handle_upload_game_response(data, "dev1")
              # "Game uploaded successfully"
    /\ \A data \in VersionUpdates :
          data.version # None /\ ~IsVersion(data.version) =>
            handle_update_game_check(data, "dev1") # "continue"
    /\ \A g \in DOMAIN games_metadata : IsVersion(games_metadata[g].version)

\* C26: a successful download_game of g by p adds exactly 1 to g's
\* download_count and leaves g in p's download history, and a failed one
\* changes neither; in every step the download_count of a game that stays in
\* the catalog is kept or grows by 1, and it grows only in a step that is a
\* successful download_game of that game; a new catalog entry starts at 0.
\* So the count equals the number of successful downloads since the upload.
C26_DownloadCount ==
    /\ [](\A p \in Players, data \in DownloadData :
            LET g == data.game_name
                games_after == handle_download_game_games(data, p)
                players_after == handle_download_game_players(data, p)
            IN  IF handle_download_game_response(data, p) = "success"
                THEN /\ games_after[g].download_count
                          = games_metadata[g].download_count + 1
                     /\ \A h \in DOMAIN games_metadata \ {g} :
                           games_after[h] = games_metadata[h]
                     /\ p \in DOMAIN players_after
                     /\ InSeq(g, players_after[p])
                ELSE /\ games_after = games_metadata
                     /\ players_after = players_json)
    /\ [][\A g \in (DOMAIN games_metadata) \cap (DOMAIN games_metadata') :
            \/ games_metadata'[g].download_count
                 = games_metadata[g].download_count
            \/ /\ games_metadata'[g].download_count
                    = games_metadata[g].download_count + 1
               /\ \E c \in LobbyConns :
                    /\ LoggedIn(c)
                    /\ handle_download_game_response(
                         [game_name |-> g], player_name[c]) = "success"
                    /\ games_metadata' = handle_download_game_games(
                                           [game_name |-> g], player_name[c])
                    /\ players_json' = handle_download_game_players(
                                         [game_name |-> g], player_name[c])
         ]_vars
    /\ [][\A g \in (DOMAIN games_metadata') \ (DOMAIN games_metadata) :
            games_metadata'[g].download_count = 0]_vars

\* C26 witness: the game has been updated and downloaded twice, by both
\* players, while a submit_review call stands before its last games_lock
\* block.
C26_Witness ==
    \E g \in DOMAIN games_metadata, c \in LobbyConns :
      /\ games_metadata[g].download_count = 2
      /\ games_metadata[g].version = "1.0.1"
      /\ HasDownloaded("p1", g) /\ HasDownloaded("p2", g)
      /\ lobby_pc[c].at = "review_aggregate"

\* C27: get_reviews for a game name that is not in the catalog answers an
\* error.
C27_GetReviewsNotFound ==
    \A data \in GetReviewsData :
      data.game_name \notin DOMAIN games_metadata =>
        handle_get_reviews_response(data).status = "error"

C30_StatusFrame ==
    \A data \in RoomData, p \in Players :
      LET after == handle_get_room_status_rooms(data, p)
          response == handle_get_room_status_response(data, p)
          n == data.room_id
      IN  /\ after # rooms =>
                /\ n \in DOMAIN rooms
                /\ rooms[n].status = "playing"
                /\ RoomServerExited(n)
          /\ (n \in DOMAIN rooms /\ ~InSeq(p, rooms[n].players)) =>
                /\ response.status = "error"
                /\ after = rooms
          /\ (/\ n \in DOMAIN rooms
              /\ InSeq(p, rooms[n].players)
              /\ rooms[n].status = "playing"
              /\ \A pid \in DOMAIN procs : procs[pid].rid # n) =>
                /\ response.status = "success"
                /\ response.room_status = "playing"

\* The player action set of the protocol; the developer action set is
\* DeveloperActions.
PlayerActionSet ==
    {"register", "login", "list_games", "get_game_info", "download_game",
     "submit_review", "get_reviews", "create_room", "list_rooms",
     "join_room", "leave_room", "get_room_status", "start_game",
     "reset_room", "list_online_players"}

\* C22: a request on a developer connection whose action is a player
\* action and not a developer action, and a request on a player connection
\* whose action is a developer action and not a player action, is answered
\* with the wrong-port error of that listener, logged in or not.
C22_WrongPort ==
    /\ \A k \in DevConns :
          /\ dev_session[k].at = "dispatch"
          /\ frames[k].request.kind = "object"
          /\ frames[k].request.action \in PlayerActionSet \ DeveloperActions
          => \A db_ok \in BOOLEAN :
                handle_developer_client_response(
                    frames[k].request, dev_session[k].developer_name, db_ok)
                  = WrongPortDeveloper
    /\ \A c \in LobbyConns :
          /\ lobby_pc[c].at = "dispatch"
          /\ frames[c].request.kind = "object"
          /\ frames[c].request.action \in DeveloperActions \ PlayerActionSet
          => \A db_ok \in BOOLEAN :
                handle_lobby_client_response(
                    frames[c].request, player_name[c], db_ok)
                  = WrongPortLobby

\* C23: a connection reads a request frame, or stands in its request loop
\* or teardown, only after a first frame that was a handshake with the
\* client_type of its listener, and the catalog, the rooms and the presence
\* table change only while such a connection exists; a handshake with
\* another client_type gets exactly one frame, the error frame, the
\* connection is closed in the same step and the catalog, the rooms and the
\* presence table stay as they were.
C23_Served(conn) ==
    /\ frames[conn].handshake.kind = "object"
    /\ frames[conn].handshake.client_type = listener_role(conn)
    /\ frames[conn].handshake_reply = "success"
C23_Mismatch(conn) ==
    /\ frames[conn].handshake.kind = "object"
    /\ frames[conn].handshake.client_type # listener_role(conn)
C23_Handshake ==
    /\ [](\A conn \in {"c1"} \cup DevConns :
            /\ (frames[conn].read > 0
                  \/ thread_at(conn) \notin {"closed", "handshake"})
               => C23_Served(conn)
            /\ thread_at(conn) # "handshake" /\ C23_Mismatch(conn)
               => /\ thread_at(conn) = "closed"
                  /\ frames[conn].handshake_reply = "error"
                  /\ frames[conn].written = 1
                  /\ frames[conn].read = 0)
    /\ [][/\ \A conn \in {"c1"} \cup DevConns :
               thread_at(conn) = "handshake" /\ C23_Mismatch(conn)'
               => UNCHANGED <<games_metadata, rooms, online_players,
                              player_name>>
          /\ ~UNCHANGED <<games_metadata, rooms, online_players>>
               => \E conn \in {"c1"} \cup DevConns :
                     C23_Served(conn) /\ thread_at(conn) # "handshake"
       ]_vars

\* A developer connection was turned away for its client_type while the
\* catalog holds a game and the lobby connection is logged in.
C23_Witness ==
    /\ \E k \in DevConns :
          /\ C23_Mismatch(k)
          /\ thread_at(k) = "closed"
          /\ frames[k].written = 1
    /\ games_metadata # EmptyDict
    /\ Truthy(player_name["c1"])
    /\ frames["c1"].read > 0

\* C28: after a successful handshake, a connection in its request loop has
\* written one response for each request frame read, and while a request is
\* being handled exactly that one response is missing; the handling of a
\* frame that is a JSON object or invalid JSON ends with one more frame
\* written and the thread back at the top of its loop, whatever the
\* response says.
C28_Conns == {"c1"} \cup DevConns
C28_Responses ==
    /\ [](\A conn \in C28_Conns :
            /\ thread_at(conn) \in {"idle", "recv"}
               => frames[conn].written = frames[conn].read + 1
            /\ thread_at(conn) = "dispatch"
               => frames[conn].written = frames[conn].read)
    /\ [][\A conn \in C28_Conns :
            /\ thread_at(conn) = "dispatch"
            /\ thread_at(conn)' # "dispatch"
            /\ frames[conn].request.kind \in {"object", "invalid_json"}
            => /\ frames'[conn].written = frames[conn].written + 1
               /\ thread_at(conn)' \in {"idle", "recv"}
       ]_vars

\* C24: no thread acquires games_lock while it holds rooms_lock, and no
\* thread acquires games_lock or rooms_lock while it holds
\* online_players_lock.
C24_Acquires(t, l) == lock_owner[l] # t /\ lock_owner'[l] = t
C24_LockOrder ==
    [][\A t \in LockThreads :
          /\ C24_Acquires(t, "games_lock")
             => /\ lock_owner["rooms_lock"] # t
                /\ lock_owner["online_players_lock"] # t
          /\ C24_Acquires(t, "rooms_lock")
             => lock_owner["online_players_lock"] # t
      ]_vars

\* C25: the bundle a download_game returns is, byte for byte, the bundle of
\* the last accepted upload_game or update_game of that game.
C25_BundleBytes ==
    \A g \in Games :
       bundles[g].received # NoArchive
       => bundles[g].received = bundles[g].sent

\* C31: reset_room by a player who is not the host of the room is rejected
\* and changes neither the room nor any subprocess; reset_room by the host
\* leaves the room waiting with pid, port and process handle cleared and
\* its host and members as they were, and sends SIGTERM to the recorded
\* subprocess if it still runs.
C31_HostReset(data, player) ==
    LET before == rooms[data.room_id]
        after == handle_reset_room_rooms(data, player)[data.room_id]
    IN  /\ handle_reset_room_response(data, player) = "Room reset to waiting"
        /\ after.status = "waiting"
        /\ ~TruthyInt(after.game_server_pid)
        /\ ~TruthyInt(after.game_server_port)
        /\ after.host = before.host
        /\ after.players = before.players
        /\ \A n \in (DOMAIN rooms) \ {data.room_id} :
              handle_reset_room_rooms(data, player)[n] = rooms[n]
        /\ \A pid \in DOMAIN procs :
              IF pid = before.game_server_pid /\ procs[pid].alive
              THEN handle_reset_room_procs(data, player)[pid].sigterm
              ELSE handle_reset_room_procs(data, player)[pid] = procs[pid]
C31_ResetRoom ==
    \A data \in RoomData, player \in Players :
       data.room_id \in DOMAIN rooms =>
         IF player # rooms[data.room_id].host
         THEN /\ handle_reset_room_response(data, player)
                   = "Only host can reset room"
              /\ handle_reset_room_rooms(data, player) = rooms
              /\ handle_reset_room_procs(data, player) = procs
         ELSE /\ C31_HostReset(data, player)
              /\ ~TruthyInt(handle_reset_room_rooms(data, player)
                              [data.room_id].game_server_process)

\* C32: the cascade step of a successful update_game or remove_game of g
\* deletes exactly the rooms whose game_name is g and leaves every other room
\* as it was; the removed_rooms list of the reply names exactly the deleted
\* rooms with their players and status; rooms are deleted by a cascade step
\* only, and a call reaches its cascade only after it passed every check on
\* a game the caller owns (an error return deletes nothing).
C32_Deleted == (DOMAIN rooms) \ (DOMAIN rooms')
C32_Cascading(d) ==
    /\ developer_pc[d].at \in {"update_cascade", "remove_cascade"}
    /\ developer_pc'[d].at = "idle"
C32_Cascade ==
    /\ [][\A d \in Developers :
            C32_Cascading(d) =>
              LET g == developer_pc[d].game_name IN
                /\ C32_Deleted = {n \in DOMAIN rooms : rooms[n].game_name = g}
                /\ \A n \in DOMAIN rooms' :
                      n \in DOMAIN rooms /\ rooms'[n] = rooms[n]
                /\ {r.room_id : r \in removed_rooms(g)} = C32_Deleted
                /\ \A r \in removed_rooms(g) :
                      /\ r.players = rooms[r.room_id].players
                      /\ r.status = rooms[r.room_id].status]_vars
    /\ [][C32_Deleted # {} => \E d \in Developers : C32_Cascading(d)]_vars
    /\ [][\A d \in Developers :
            (developer_pc[d].at = "idle" /\ developer_pc'[d].at # "idle") =>
              LET g == developer_pc'[d].game_name IN
                /\ g \in DOMAIN games_metadata
                /\ games_metadata[g].developer = d]_vars
\* Room 2 was deleted by the cascade of its game while room 1, created
\* before it for the other game, is still there.
C32_Witness ==
    /\ 1 \in DOMAIN rooms
    /\ rooms[1].game_name = "tac"
    /\ 2 \notin DOMAIN rooms
    /\ room_id_counter = 3
    /\ developer_pc["dev1"].at = "idle"

\* C33: while a connection has no name bound (no login has succeeded on
\* it), every object request whose action is not register or login (nor,
\* on the lobby port, list_games or get_game_info) is answered "Please login
\* first" and leaves the catalog, the reviews, the download history, the
\* rooms, the room counter and the presence table as they were; a name is
\* bound to the connection only by a login that is answered "Login
\* successful", and it is the name of that login.
C33_Name(conn) ==
    IF conn \in DevConns THEN dev_session[conn].developer_name
    ELSE player_name[conn]
C33_NameNext(conn) ==
    IF conn \in DevConns THEN dev_session'[conn].developer_name
    ELSE player_name'[conn]
C33_OpenActions(conn) ==
    IF conn \in DevConns THEN {"login", "register"}
    ELSE {"login", "register", "list_games", "get_game_info"}
C33_State ==
    <<games_metadata, review_vars, rooms, room_id_counter, online_players>>
C33_Dispatches(conn) ==
    /\ thread_at(conn) = "dispatch"
    /\ IF conn \in DevConns THEN dev_session'[conn].at # "dispatch"
       ELSE lobby_pc'[conn].at # "dispatch"
    /\ ~Truthy(C33_Name(conn))
C33_NotLoggedIn ==
    [][\A conn \in DOMAIN frames :
            C33_Dispatches(conn) =>
              LET frame == frames[conn].request IN
                /\ (frame.kind = "object"
                       /\ frame.action \notin C33_OpenActions(conn)) =>
                      /\ C33_State' = C33_State
                      /\ frames'[conn].response = "Please login first"
                      /\ frames'[conn].written = frames[conn].written + 1
                      /\ C33_NameNext(conn) = None
                /\ C33_NameNext(conn) # None =>
                      /\ frame.kind = "object"
                      /\ frame.action = "login"
                      /\ frames'[conn].response = "Login successful"
                      /\ C33_NameNext(conn) = frame.username]_vars
\* A connection without a name has been answered "Please login first", and
\* another one "Invalid username or password".
C33_Witness ==
    /\ frames["c1"].response = "Please login first"
    /\ ~Truthy(player_name["c1"])
    /\ frames["k1"].response \in {"Invalid username or password",
                                   "Please login first"}
    /\ ~Truthy(dev_session["k1"].developer_name)
    /\ frames["k1"].read = 2

\* C34: every room of the registry has an id below room_id_counter; the
\* counter never goes down; a step that adds a room adds one room, under
\* the id the counter held, and moves the counter past it (so an id is
\* greater than every id given before, is never given twice, also after its
\* room is deleted, and two create_room calls in flight get different ids);
\* the counter moves only in a step that adds a room (a create_room that
\* is rejected consumes no id).
C34_Added == (DOMAIN rooms') \ (DOMAIN rooms)
C34_RoomIds ==
    /\ [](\A n \in DOMAIN rooms : n < room_id_counter)
    /\ [][room_id_counter' >= room_id_counter]_vars
    /\ [][C34_Added # {} =>
            /\ C34_Added = {room_id_counter}
            /\ room_id_counter' = room_id_counter + 1]_vars
    /\ [][room_id_counter' # room_id_counter =>
            C34_Added = {room_id_counter}]_vars
\* Room 1 is gone and room 2, created by the other player, has not taken
\* its id.
C34_Witness ==
    /\ 1 \notin DOMAIN rooms
    /\ 2 \in DOMAIN rooms
    /\ room_id_counter = 3
    /\ \E c \in CascadeConns : lobby_pc[c].at = "create_room"


\* C35: once recv_frame has returned on a stream that carries one whole frame
\* of send_frame, it has returned the payload, however the bytes were handed
\* over; what it returns as data is never anything but the payload sent;
\* when the stream ended inside the frame it has returned None; and it
\* never starts to read a payload whose length prefix exceeds 10 MiB.
C35_RoundTrip ==
    /\ (wire.at = "done" /\ wire.framed /\ wire.complete) =>
          (wire.returned = "data" /\ wire.data = wire.payload)
    /\ wire.returned = "data" =>
          (wire.framed /\ wire.data = wire.payload)
    /\ (wire.at = "done" /\ wire.framed /\ ~wire.complete) =>
          wire.returned = "None"
    /\ wire.at = "data" => wire.length <= FrameLimit
\* The same for the reader of tetris/lpfp.py alone.
C35_RoundTripTetris == wire.lpfp = "tetris" => C35_RoundTrip
\* The reader of tetris/lpfp.py has put a two-byte payload together from a
\* header and a payload that both came in pieces.
C35_Witness ==
    /\ wire.lpfp = "tetris"
    /\ wire.at = "done"
    /\ wire.returned = "data"
    /\ Len(wire.data) = MaxPayload


\* C36: when the monitor thread of subprocess P runs its rooms_lock block
\* while the room records another subprocess that is still running and the
\* room is playing, the room stays playing and keeps the recorded pid and
\* port.
C36_MonitorRuns(pid) ==
    /\ pid \in DOMAIN procs
    /\ procs[pid].monitor = "waiting"
    /\ procs'[pid].monitor = "done"
C36_LateExit ==
    [][\A pid \in RestartPids :
         C36_MonitorRuns(pid) =>
           LET rid == procs[pid].rid IN
             (/\ rid \in DOMAIN rooms
              /\ rooms[rid].status = "playing"
              /\ rooms[rid].game_server_pid \in DOMAIN procs
              /\ rooms[rid].game_server_pid # pid
              /\ procs[rooms[rid].game_server_pid].alive) =>
               /\ rooms'[rid].status = "playing"
               /\ rooms'[rid].game_server_pid = rooms[rid].game_server_pid
               /\ rooms'[rid].game_server_port
                    = rooms[rid].game_server_port]_vars

\* C39: every subprocess that is running is the recorded game server of a
\* room that exists and is playing, or SIGTERM has been sent to it.
C39_Owned(p) ==
    \E n \in DOMAIN rooms :
       rooms[n].status = "playing" /\ rooms[n].game_server_pid = p
C39_NoOrphan ==
    \A p \in DOMAIN procs :
       procs[p].alive => (procs[p].sigterm \/ C39_Owned(p))


\* C37: no player is in the players list of two rooms.
C37_RoomsOf(player) ==
    {n \in DOMAIN rooms :
       \E i \in 1..Len(rooms[n].players) : rooms[n].players[i] = player}
C37_OneRoom ==
    \A player \in Players : Cardinality(C37_RoomsOf(player)) <= 1

\* C38: the locks a handler holds when it acquires another one give an order
\* without a cycle; in every state where some thread is inside a handler,
\* some thread can take its next step (it releases, or the lock it wants is
\* free); a thread outside any handler holds no lock; and every thread that
\* has entered a handler comes out of it.
C38_Held(script, i) ==
    {l \in Locks :
       \E j \in 1..(i - 1) :
          /\ script[j] = Acquire(l)
          /\ \A k \in (j + 1)..(i - 1) : script[k] # Release(l)}
C38_Nesting ==
    {pair \in Locks \X Locks :
       \E handler \in LockHandlers :
          \E i \in 1..Len(LockScript(handler)) :
             /\ LockScript(handler)[i] = Acquire(pair[2])
             /\ pair[1] \in C38_Held(LockScript(handler), i)}
C38_Acyclic ==
    \E rank \in [Locks -> 1..Cardinality(Locks)] :
       \A pair \in C38_Nesting : rank[pair[1]] < rank[pair[2]]
C38_CanStep(t) ==
    /\ lock_pc[t].handler # "idle"
    /\ LET event == LockScript(lock_pc[t].handler)[lock_pc[t].passed + 1]
       IN  event.op = "release" \/ lock_owner[event.lock] = None
C38_NoDeadlock ==
    /\ [](C38_Acyclic)
    /\ []((\E t \in LockThreads : lock_pc[t].handler # "idle")
            => \E t \in LockThreads : C38_CanStep(t))
    /\ [](\A t \in LockThreads :
            lock_pc[t].handler = "idle"
            => \A l \in Locks : lock_owner[l] # t)
    /\ \A t \in LockThreads :
          (lock_pc[t].handler # "idle") ~> (lock_pc[t].handler = "idle")
\* One thread is inside start_game holding rooms_lock and games_lock while
\* the other waits for games_lock in download_game.
C38_Witness ==
    /\ lock_owner["rooms_lock"] = "t1"
    /\ lock_owner["games_lock"] = "t1"
    /\ lock_pc["t1"].handler = "start_game"
    /\ lock_pc["t2"] = LockAt("download_game", 0)


\* C40: once remove_game has returned and no submit_review is under way,
\* a game that is not in the catalog has no stored review and is in no
\* player's download history; and a game of the catalog that nobody has
\* downloaded since it was uploaded has no stored review and is in no
\* player's download history either, so that submit_review on it is
\* refused.
C40_Residue(g) ==
    \/ stored_reviews(g) # <<>>
    \/ \E p \in Players : InSeq(g, downloaded_games(p))
C40_NoResidue ==
    (developer_pc["dev1"].at = "idle" /\ NoSubmitReviewInProgress) =>
      \A g \in Games :
         /\ g \notin DOMAIN games_metadata => ~C40_Residue(g)
         /\ (g \in DOMAIN games_metadata
               /\ games_metadata[g].download_count = 0) =>
              /\ ~C40_Residue(g)
              /\ \A p \in Players :
                    handle_submit_review_downloaded(g, p) # "continue"

====
